---- MODULE Spec2Model ----
(***************************************************************************)
(* Model of the oval-package-parser inventory parser (parser.go) and of    *)
(* the fix-version evaluator (main.go).                                    *)
(*                                                                         *)
(* A Go string is modelled as a sequence of one-character strings, so that *)
(* trimming, prefix tests, index searches and the three regular expressions*)
(* are computed character by character as the Go code computes them.       *)
(* Go's 0-based offsets are kept: Index and LastIndex return -1 when the   *)
(* substring is absent, and Slice(s, a, b) is the Go slice s[a:b].         *)
(***************************************************************************)
EXTENDS Integers, Sequences, FiniteSets, TLC

(***************************************************************************)
(* Go standard library: strings and unicode helpers used by the code.      *)
(***************************************************************************)

\* White space as strings.TrimSpace and the regexp class \s see it (the
\* characters of the modelled inputs are ASCII).
IsSpace(c) == c \in {" ", "\t"}

IsDigit(c) == c \in {"0", "1", "2", "3", "4", "5", "6", "7", "8", "9"}

\* s[a:b]
Slice(s, a, b) == SubSeq(s, a + 1, b)

RECURSIVE TrimLeftSpace(_)
TrimLeftSpace(s) ==
    IF s # << >> /\ IsSpace(Head(s)) THEN TrimLeftSpace(Tail(s)) ELSE s

RECURSIVE TrimRightSpace(_)
TrimRightSpace(s) ==
    IF s # << >> /\ IsSpace(s[Len(s)])
    THEN TrimRightSpace(SubSeq(s, 1, Len(s) - 1))
    ELSE s

\* strings.TrimSpace
TrimSpace(s) == TrimRightSpace(TrimLeftSpace(s))

\* strings.HasPrefix
HasPrefix(s, prefix) ==
    Len(s) >= Len(prefix) /\ SubSeq(s, 1, Len(prefix)) = prefix

\* strings.HasSuffix
HasSuffix(s, suffix) ==
    Len(s) >= Len(suffix) /\ SubSeq(s, Len(s) - Len(suffix) + 1, Len(s)) = suffix

\* strings.TrimPrefix
TrimPrefix(s, prefix) ==
    IF HasPrefix(s, prefix) THEN SubSeq(s, Len(prefix) + 1, Len(s)) ELSE s

\* The 0-based offsets at which substr occurs in s.
Occurrences(s, substr) ==
    {i \in 0..(Len(s) - Len(substr)) : Slice(s, i, i + Len(substr)) = substr}

Min(S) == CHOOSE x \in S : \A y \in S : x <= y

Max(S) == CHOOSE x \in S : \A y \in S : x >= y

\* strings.Index
Index(s, substr) ==
    IF Occurrences(s, substr) = {} THEN -1 ELSE Min(Occurrences(s, substr))

\* strings.LastIndex
LastIndex(s, substr) ==
    IF Occurrences(s, substr) = {} THEN -1 ELSE Max(Occurrences(s, substr))

(***************************************************************************)
(* String literals of the source, and the lines the modelled input stream  *)
(* is made of.                                                             *)
(***************************************************************************)

\* "=== Installed Packages Begin"
MarkerPackagesBegin ==
    <<"=","=","="," ","I","n","s","t","a","l","l","e","d"," ","P","a","c","k","a","g","e",
      "s"," ","B","e","g","i","n">>

\* "=== Installed Packages End"
MarkerPackagesEnd ==
    <<"=","=","="," ","I","n","s","t","a","l","l","e","d"," ","P","a","c","k","a","g","e",
      "s"," ","E","n","d">>

\* "=== os-release Begin"
MarkerOSReleaseBegin ==
    <<"=","=","="," ","o","s","-","r","e","l","e","a","s","e"," ","B","e","g","i","n">>

\* "=== os-release End"
MarkerOSReleaseEnd ==
    <<"=","=","="," ","o","s","-","r","e","l","e","a","s","e"," ","E","n","d">>

\* "containerd images pre-pulled:"
MarkerContainerImages ==
    <<"c","o","n","t","a","i","n","e","r","d"," ","i","m","a","g","e","s"," ","p","r","e",
      "-","p","u","l","l","e","d",":">>

\* "Listing..."
Listing ==
    <<"L","i","s","t","i","n","g",".",".",".">>

\* "  - "
ImagePrefix ==
    <<" "," ","-"," ">>

\* ",now"
CommaNow ==
    <<",","n","o","w">>

\* "NAME"
KeyNAME ==
    <<"N","A","M","E">>

\* "VERSION_ID"
KeyVERSION_ID ==
    <<"V","E","R","S","I","O","N","_","I","D">>

\* "VERSION"
KeyVERSION ==
    <<"V","E","R","S","I","O","N">>

\* "PRETTY_NAME"
KeyPRETTY_NAME ==
    <<"P","R","E","T","T","Y","_","N","A","M","E">>

\* "ID"
KeyID ==
    <<"I","D">>

\* "ubuntu"
IdUbuntu ==
    <<"u","b","u","n","t","u">>

\* "debian"
IdDebian ==
    <<"d","e","b","i","a","n">>

\* "azurelinux"
IdAzureLinux ==
    <<"a","z","u","r","e","l","i","n","u","x">>

\* "mariner"
IdMariner ==
    <<"m","a","r","i","n","e","r">>

\* "azl3"
DistAzl3 ==
    <<"a","z","l","3">>

\* "cm2"
DistCm2 ==
    <<"c","m","2">>

\* "x86_64"
ArchX86_64 ==
    <<"x","8","6","_","6","4">>

\* "noarch"
ArchNoarch ==
    <<"n","o","a","r","c","h">>

\* "adduser/noble,now 3.137ubuntu1 all [installed,automatic]"
LineApt ==
    <<"a","d","d","u","s","e","r","/","n","o","b","l","e",",","n","o","w"," ","3",".","1",
      "3","7","u","b","u","n","t","u","1"," ","a","l","l"," ","[","i","n","s","t","a","l",
      "l","e","d",",","a","u","t","o","m","a","t","i","c","]">>

\* "filesystem-1.1-21.azl3.x86_64"
LineRpm ==
    <<"f","i","l","e","s","y","s","t","e","m","-","1",".","1","-","2","1",".","a","z","l",
      "3",".","x","8","6","_","6","4">>

\* "  - mcr.microsoft.com/oss/kubernetes/pause:3.6"
LineImage ==
    <<" "," ","-"," ","m","c","r",".","m","i","c","r","o","s","o","f","t",".","c","o","m",
      "/","o","s","s","/","k","u","b","e","r","n","e","t","e","s","/","p","a","u","s","e",
      ":","3",".","6">>

\* "ID=azurelinux"
LineIdAzureLinux ==
    <<"I","D","=","a","z","u","r","e","l","i","n","u","x">>

\* "ID=mariner"
LineIdMariner ==
    <<"I","D","=","m","a","r","i","n","e","r">>

\* "ID=ubuntu"
LineIdUbuntu ==
    <<"I","D","=","u","b","u","n","t","u">>

\* "ID=debian"
LineIdDebian ==
    <<"I","D","=","d","e","b","i","a","n">>

\* "ID=fedora"
LineIdFedora ==
    <<"I","D","=","f","e","d","o","r","a">>

\* "NAME="Ubuntu""
LineName ==
    <<"N","A","M","E","=","\"","U","b","u","n","t","u","\"">>

\* "HOME_URL="https://aka.ms/azurelinux""
LineHomeUrl ==
    <<"H","O","M","E","_","U","R","L","=","\"","h","t","t","p","s",":","/","/","a","k","a",
      ".","m","s","/","a","z","u","r","e","l","i","n","u","x","\"">>

\* "Starting build"
LineNarrative ==
    <<"S","t","a","r","t","i","n","g"," ","b","u","i","l","d">>

\* "  === Installed Packages End  "
LinePaddedPackagesEnd ==
    <<" "," ","=","=","="," ","I","n","s","t","a","l","l","e","d"," ","P","a","c","k","a",
      "g","e","s"," ","E","n","d"," "," ">>

\* "=== Installed Packages Begin ==="
LineNearMissBegin ==
    <<"=","=","="," ","I","n","s","t","a","l","l","e","d"," ","P","a","c","k","a","g","e",
      "s"," ","B","e","g","i","n"," ","=","=","=">>

\* "  - "
LinePrefixOnly ==
    <<" "," ","-"," ">>

(***************************************************************************)
(* OSDistro (parser.go, the iota block).                                   *)
(***************************************************************************)

DistroUnknown == 0

DistroUbuntu == 1

DistroAzureLinux == 2

DistroMariner == 3

OSDistros == {DistroUnknown, DistroUbuntu, DistroAzureLinux, DistroMariner}

(***************************************************************************)
(* The three compiled patterns of NewParser.  A match is returned as the   *)
(* sequence of submatches (<<whole, group1, group2>>), and << >> stands for *)
(* the nil slice FindStringSubmatch returns when the pattern does not      *)
(* match.  Go's regexp prefers the leftmost match and, among those, the    *)
(* one a backtracking engine finds first, so a greedy .* or .+ takes the   *)
(* longest prefix for which the rest of the pattern still matches.         *)
(***************************************************************************)

\* Length of the longest run of characters at 0-based offset i of s that all
\* satisfy (space = TRUE) or all fail (space = FALSE) IsSpace.
RECURSIVE RunLen(_, _, _)
RunLen(s, i, space) ==
    IF i < Len(s) /\ (IsSpace(s[i + 1]) = space)
    THEN 1 + RunLen(s, i + 1, space)
    ELSE 0

\* The tail of ubuntuRegex after ",now", tried at 0-based offset i:
\*     \s+(\S+)\s+\S+\s+\[.*\]
\* Each \s+ and \S+ is followed by an atom of the opposite class, so it takes
\* the whole run.  The result is <<TRUE, start, end>> of group 2 and the
\* offset where the match ends, or <<FALSE>>.
UbuntuTail(s, i) ==
    LET ws1 == RunLen(s, i, TRUE)
        v0  == i + ws1
        ver == RunLen(s, v0, FALSE)
        w0  == v0 + ver
        ws2 == RunLen(s, w0, TRUE)
        a0  == w0 + ws2
        \* \S+ may stop early only where \s+ can follow: it must take the run.
        ar  == RunLen(s, a0, FALSE)
        x0  == a0 + ar
        ws3 == RunLen(s, x0, TRUE)
        b0  == x0 + ws3
        close == {j \in (b0 + 1)..(Len(s) - 1) : s[j + 1] = "]"}
    IN  IF /\ ws1 >= 1 /\ ver >= 1 /\ ws2 >= 1 /\ ar >= 1 /\ ws3 >= 1
           /\ b0 < Len(s) /\ s[b0 + 1] = "["
           /\ close # {}
        THEN <<TRUE, v0, w0, Max(close) + 1>>
        ELSE <<FALSE>>

\* ubuntuRegex: ^([^/]+)/.*,now\s+(\S+)\s+\S+\s+\[.*\]
\* Group 1 ends at the first "/" (it cannot contain one and must be followed by
\* one); the greedy .* then reaches the last ",now" from which the tail matches.
ubuntuRegexFind(line) ==
    LET slash == Index(line, <<"/">>)
        nows  == {j \in Occurrences(line, CommaNow) :
                     j >= slash + 1 /\ UbuntuTail(line, j + Len(CommaNow))[1]}
    IN  IF slash >= 1 /\ nows # {}
        THEN LET t == UbuntuTail(line, Max(nows) + Len(CommaNow))
             IN  <<Slice(line, 0, t[4]), Slice(line, 0, slash), Slice(line, t[2], t[3])>>
        ELSE << >>

\* The alternatives (azl3|cm2) and (x86_64|noarch) of rpmRegex.
RpmSuffixes ==
    {<<".">> \o d \o <<".">> \o a : d \in {DistAzl3, DistCm2}, a \in {ArchX86_64, ArchNoarch}}

\* rpmRegex: ^(.+)-([^-]+\.(azl3|cm2)\.(x86_64|noarch))$
\* Group 2 holds no hyphen, so it starts after the last hyphen of the line.
rpmRegexFind(line) ==
    LET dash == LastIndex(line, <<"-">>)
        g2   == Slice(line, dash + 1, Len(line))
    IN  IF /\ dash >= 1
           /\ \E suf \in RpmSuffixes : HasSuffix(g2, suf) /\ Len(g2) > Len(suf)
        THEN <<line, Slice(line, 0, dash), g2>>
        ELSE << >>

\* nameVersionRpmFind with a lazy first group: it stops at the first hyphen
\* that a digit follows.
nameVersionRpmFind_FirstHyphen(namePart) ==
    LET cuts == {i \in Occurrences(namePart, <<"-">>) :
                    i >= 1 /\ i + 1 < Len(namePart) /\ IsDigit(namePart[i + 2])}
    IN  IF cuts # {}
        THEN <<namePart, Slice(namePart, 0, Min(cuts)),
               Slice(namePart, Min(cuts) + 1, Len(namePart))>>
        ELSE << >>

\* nameVersionRpm: ^(.+)-([0-9].*)$
\* The greedy .+ reaches the last hyphen that a digit follows.
nameVersionRpmFind(namePart) ==
    LET cuts == {i \in Occurrences(namePart, <<"-">>) :
                    i >= 1 /\ i + 1 < Len(namePart) /\ IsDigit(namePart[i + 2])}
    IN  IF cuts # {}
        THEN <<namePart, Slice(namePart, 0, Max(cuts)),
               Slice(namePart, Max(cuts) + 1, Len(namePart))>>
        ELSE << >>

(***************************************************************************)
(* Line classifiers.  A *OSPackage or *ContainerImage result is a sequence *)
(* of length at most one: << >> is nil.                                    *)
(***************************************************************************)

OSPackage(name, version) == [Name |-> name, Version |-> version]

ContainerImage(name) == [Name |-> name]

\* parsePackageLine that tries the RPM pattern before the APT pattern.
parsePackageLine_RpmFirst(line) ==
    IF line = << >> THEN << >>
    ELSE IF Len(rpmRegexFind(line)) >= 3
    THEN LET namePart    == rpmRegexFind(line)[2]
             versionPart == rpmRegexFind(line)[3]
             idx         == LastIndex(versionPart, <<".">>)
             arch        == Slice(versionPart, idx + 1, Len(versionPart))
             releaseVersion ==
                 IF idx # -1 /\ (arch = ArchX86_64 \/ arch = ArchNoarch)
                 THEN Slice(versionPart, 0, idx)
                 ELSE versionPart
             nameVersionMatches == nameVersionRpmFind(namePart)
         IN  IF Len(nameVersionMatches) >= 3
             THEN <<OSPackage(nameVersionMatches[2],
                              nameVersionMatches[3] \o <<"-">> \o releaseVersion)>>
             ELSE <<OSPackage(namePart, releaseVersion)>>
    ELSE IF Len(ubuntuRegexFind(line)) >= 3
    THEN <<OSPackage(ubuntuRegexFind(line)[2], ubuntuRegexFind(line)[3])>>
    ELSE << >>

parsePackageLine(line) ==
    IF line = << >> THEN << >>
    ELSE IF Len(ubuntuRegexFind(line)) >= 3
    THEN <<OSPackage(ubuntuRegexFind(line)[2], ubuntuRegexFind(line)[3])>>
    ELSE IF Len(rpmRegexFind(line)) >= 3
    THEN LET namePart    == rpmRegexFind(line)[2]
             versionPart == rpmRegexFind(line)[3]
             idx         == LastIndex(versionPart, <<".">>)
             arch        == Slice(versionPart, idx + 1, Len(versionPart))
             releaseVersion ==
                 IF idx # -1 /\ (arch = ArchX86_64 \/ arch = ArchNoarch)
                 THEN Slice(versionPart, 0, idx)
                 ELSE versionPart
             nameVersionMatches == nameVersionRpmFind(namePart)
         IN  IF Len(nameVersionMatches) >= 3
             THEN <<OSPackage(nameVersionMatches[2],
                              nameVersionMatches[3] \o <<"-">> \o releaseVersion)>>
             ELSE <<OSPackage(namePart, releaseVersion)>>
    ELSE << >>

\* The keys parseOSReleaseLine stores.
OSReleaseKeys == {KeyNAME, KeyVERSION_ID, KeyVERSION, KeyPRETTY_NAME, KeyID}

\* A Go map[string]string is a function on the set of keys it holds.
EmptyMap == [k \in {} |-> << >>]

MapSet(data, key, value) ==
    [k \in (DOMAIN data) \cup {key} |-> IF k = key THEN value ELSE data[k]]

\* data[key], the zero value "" when the key is absent.
MapGet(data, key) == IF key \in DOMAIN data THEN data[key] ELSE << >>

\* parseOSReleaseLine splitting at the last "=" of the line.
parseOSReleaseLine_LastEquals(line, data) ==
    IF line = << >> THEN data
    ELSE LET idx == LastIndex(line, <<"=">>)
         IN  IF idx > 0
             THEN LET key   == TrimSpace(Slice(line, 0, idx))
                      raw   == TrimSpace(Slice(line, idx + 1, Len(line)))
                      value == IF Len(raw) >= 2 /\ raw[1] = "\"" /\ raw[Len(raw)] = "\""
                               THEN Slice(raw, 1, Len(raw) - 1)
                               ELSE raw
                  IN  IF key \in OSReleaseKeys THEN MapSet(data, key, value) ELSE data
             ELSE data

\* parseOSReleaseLine that keeps the value a key already has.
parseOSReleaseLine_FirstWins(line, data) ==
    IF line = << >> THEN data
    ELSE LET idx == Index(line, <<"=">>)
         IN  IF idx > 0
             THEN LET key   == TrimSpace(Slice(line, 0, idx))
                      raw   == TrimSpace(Slice(line, idx + 1, Len(line)))
                      value == IF Len(raw) >= 2 /\ raw[1] = "\"" /\ raw[Len(raw)] = "\""
                               THEN Slice(raw, 1, Len(raw) - 1)
                               ELSE raw
                  IN  IF key \in OSReleaseKeys /\ key \notin DOMAIN data
                      THEN MapSet(data, key, value)
                      ELSE data
             ELSE data

\* The map after parseOSReleaseLine(line, data).
parseOSReleaseLine(line, data) ==
    IF line = << >> THEN data
    ELSE LET idx == Index(line, <<"=">>)
         IN  IF idx > 0
             THEN LET key   == TrimSpace(Slice(line, 0, idx))
                      raw   == TrimSpace(Slice(line, idx + 1, Len(line)))
                      value == IF Len(raw) >= 2 /\ raw[1] = "\"" /\ raw[Len(raw)] = "\""
                               THEN Slice(raw, 1, Len(raw) - 1)
                               ELSE raw
                  IN  IF key \in OSReleaseKeys THEN MapSet(data, key, value) ELSE data
             ELSE data

\* parseContainerImageLine looking for the entry mark "- " on the trimmed
\* line.
parseContainerImageLine_AnyIndent(line) ==
    IF line = << >> THEN << >>
    ELSE IF ~HasPrefix(TrimSpace(line), <<"-", " ">>) THEN << >>
    ELSE LET imageName == TrimSpace(TrimPrefix(TrimSpace(line), <<"-", " ">>))
         IN  IF imageName = << >> THEN << >> ELSE <<ContainerImage(imageName)>>

parseContainerImageLine(line) ==
    IF line = << >> THEN << >>
    ELSE IF ~HasPrefix(line, ImagePrefix) THEN << >>
    ELSE LET imageName == TrimSpace(TrimPrefix(line, ImagePrefix))
         IN  IF imageName = << >> THEN << >> ELSE <<ContainerImage(imageName)>>

isUbuntuPackageFormat(line) == ubuntuRegexFind(line) # << >>

isRPMPackageFormat(line) == rpmRegexFind(line) # << >>

\* detectDistroFromID with the two RPM distributions confused: azurelinux is
\* reported as Mariner.
detectDistroFromID_RpmConfused(id) ==
    IF id = IdUbuntu \/ id = IdDebian THEN DistroUbuntu
    ELSE IF id = IdAzureLinux THEN DistroMariner
    ELSE IF id = IdMariner THEN DistroMariner
    ELSE DistroUnknown

detectDistroFromID(id) ==
    IF id = IdUbuntu \/ id = IdDebian THEN DistroUbuntu
    ELSE IF id = IdAzureLinux THEN DistroAzureLinux
    ELSE IF id = IdMariner THEN DistroMariner
    ELSE DistroUnknown

(***************************************************************************)
(* Version ordering, as main.go uses it through go-deb-version and         *)
(* go-rpm-version: NewVersion and Compare of both packages, computed on    *)
(* the characters of the two version strings.                              *)
(***************************************************************************)

\* The ASCII characters of codes 32 (the space) to 95 (the underscore), in code order.
AsciiLow ==
    <<" ","!","\"","#","$","%","&","'","(",")","*","+",",","-",".","/","0","1","2","3",
      "4","5","6","7","8","9",":",";","<","=",">","?","@","A","B","C","D","E","F","G",
      "H","I","J","K","L","M","N","O","P","Q","R","S","T","U","V","W","X","Y","Z","[",
      "\\","]","^","_">>

\* The ASCII characters of codes 97 (a) to 126 (the tilde), in code order.
AsciiHigh ==
    <<"a","b","c","d","e","f","g","h","i","j","k","l","m","n","o","p","q","r","s","t",
      "u","v","w","x","y","z","{","|","}","~">>

\* ""
VerEmpty ==
<< >>

\* "1.2.3-4ubuntu1"
VerDeb1 ==
    <<"1",".","2",".","3","-","4","u","b","u","n","t","u","1">>

\* "1.2.3-4ubuntu2"
VerDeb2 ==
    <<"1",".","2",".","3","-","4","u","b","u","n","t","u","2">>

\* "invalid-version"
VerInvalid ==
    <<"i","n","v","a","l","i","d","-","v","e","r","s","i","o","n">>

\* "1.2.3-3.azl3"
VerRpm3 ==
    <<"1",".","2",".","3","-","3",".","a","z","l","3">>

\* "1.2.3-4.azl3"
VerRpm4 ==
    <<"1",".","2",".","3","-","4",".","a","z","l","3">>

\* "1.2.3-5.azl3"
VerRpm5 ==
    <<"1",".","2",".","3","-","5",".","a","z","l","3">>

\* "1:1.0-1"
VerEpoch ==
    <<"1",":","1",".","0","-","1">>

\* "1.2.3~rc1-1"
VerTilde ==
    <<"1",".","2",".","3","~","r","c","1","-","1">>


\* The characters of the modelled strings.
Chars == {AsciiLow[i] : i \in 1..Len(AsciiLow)} \cup {AsciiHigh[i] : i \in 1..Len(AsciiHigh)}

\* The code of character c.
Code(c) ==
    IF \E i \in 1..Len(AsciiLow) : AsciiLow[i] = c
    THEN 31 + (CHOOSE i \in 1..Len(AsciiLow) : AsciiLow[i] = c)
    ELSE 96 + (CHOOSE i \in 1..Len(AsciiHigh) : AsciiHigh[i] = c)

IsLetter(c) == Code(c) \in (65..90) \cup (97..122)

\* The value of a run of decimal digits (0 for the empty run).
RECURSIVE DigitsValue(_)
DigitsValue(s) ==
    IF s = << >> THEN 0
    ELSE 10 * DigitsValue(SubSeq(s, 1, Len(s) - 1)) + (Code(s[Len(s)]) - 48)

\* strconv.Atoi: <<TRUE, n>>, or <<FALSE>> for a syntax error.
Atoi(s) ==
    LET signed == s # << >> /\ s[1] \in {"+", "-"}
        digits == IF signed THEN Tail(s) ELSE s
    IN  IF digits # << >> /\ \A i \in 1..Len(digits) : IsDigit(digits[i])
        THEN <<TRUE, IF signed /\ s[1] = "-" THEN 0 - DigitsValue(digits)
                     ELSE DigitsValue(digits)>>
        ELSE <<FALSE>>

\* -1, 0 or 1 as the byte-wise order of Go's < and > on strings puts a before,
\* at or after b.
RECURSIVE StringOrder(_, _)
StringOrder(a, b) ==
    IF a = << >> /\ b = << >> THEN 0
    ELSE IF a = << >> THEN -1
    ELSE IF b = << >> THEN 1
    ELSE IF Code(a[1]) < Code(b[1]) THEN -1
    ELSE IF Code(a[1]) > Code(b[1]) THEN 1
    ELSE StringOrder(Tail(a), Tail(b))

\* The maximal runs of s, split where Class changes; Runs(s, cls) keeps the
\* runs of the classes in cls.  A class in single is never joined into a run.
RECURSIVE RunsFrom(_, _, _, _)
RunsFrom(s, classOf, keep, single) ==
    IF s = << >> THEN << >>
    ELSE LET c == classOf[s[1]]
             same == {n \in 1..Len(s) : \A i \in 1..n : classOf[s[i]] = c}
             n == IF c \in single THEN 1 ELSE Max(same)
             rest == RunsFrom(SubSeq(s, n + 1, Len(s)), classOf, keep, single)
         IN  IF c \in keep THEN <<SubSeq(s, 1, n)>> \o rest ELSE rest

\* ---- go-rpm-version

\* rpmversion.NewVersion: epoch, version and release.  An epoch that is not a
\* number counts as 0.
rpmNewVersion(ver) ==
    LET colon == Index(ver, <<":">>)
        epoch == IF colon >= 0 /\ Atoi(Slice(ver, 0, colon))[1]
                 THEN Atoi(Slice(ver, 0, colon))[2] ELSE 0
        rest  == IF colon >= 0 THEN Slice(ver, colon + 1, Len(ver)) ELSE ver
        dash  == Index(rest, <<"-">>)
    IN  [epoch |-> epoch,
         version |-> IF dash >= 0 THEN Slice(rest, 0, dash) ELSE rest,
         release |-> IF dash >= 0 THEN Slice(rest, dash + 1, Len(rest)) ELSE << >>]

\* The classes of alphanumPattern, ([a-zA-Z]+)|([0-9]+)|(~).
RpmClass ==
    [c \in Chars |->
        IF IsDigit(c) THEN "digit" ELSE IF IsLetter(c) THEN "alpha"
        ELSE IF c = "~" THEN "tilde" ELSE "separator"]

\* alphanumPattern.FindAllString(s, -1)
rpmSegments(s) == RunsFrom(s, RpmClass, {"digit", "alpha", "tilde"}, {"tilde"})

RECURSIVE TrimLeftZeros(_)
TrimLeftZeros(s) == IF s # << >> /\ s[1] = "0" THEN TrimLeftZeros(Tail(s)) ELSE s

\* One pass of the segment loop of rpmvercmp: 0 when the two segments tie.
rpmSegmentCompare(a, b) ==
    IF (a[1] = "~" \/ b[1] = "~") /\ a[1] # "~" THEN 1
    ELSE IF (a[1] = "~" \/ b[1] = "~") /\ b[1] # "~" THEN -1
    ELSE IF IsDigit(a[1])
    THEN IF ~IsDigit(b[1]) THEN 1
         ELSE IF Len(TrimLeftZeros(a)) > Len(TrimLeftZeros(b)) THEN 1
         ELSE IF Len(TrimLeftZeros(b)) > Len(TrimLeftZeros(a)) THEN -1
         ELSE StringOrder(TrimLeftZeros(a), TrimLeftZeros(b))
    ELSE IF IsDigit(b[1]) THEN -1
    ELSE StringOrder(a, b)

RECURSIVE rpmSegmentsCompare(_, _)
rpmSegmentsCompare(segsa, segsb) ==
    IF segsa # << >> /\ segsb # << >>
    THEN IF rpmSegmentCompare(segsa[1], segsb[1]) # 0
         THEN rpmSegmentCompare(segsa[1], segsb[1])
         ELSE rpmSegmentsCompare(Tail(segsa), Tail(segsb))
    ELSE IF segsa = << >> /\ segsb = << >> THEN 0
    ELSE IF segsa # << >> /\ segsa[1] = <<"~">> THEN -1
    ELSE IF segsb # << >> /\ segsb[1] = <<"~">> THEN 1
    ELSE IF segsa # << >> THEN 1
    ELSE -1

rpmvercmp(a, b) ==
    IF a = b THEN 0 ELSE rpmSegmentsCompare(rpmSegments(a), rpmSegments(b))

\* Version.Compare of go-rpm-version
rpmCompare(v1, v2) ==
    IF v1 = v2 THEN 0
    ELSE IF v1.epoch > v2.epoch THEN 1
    ELSE IF v1.epoch < v2.epoch THEN -1
    ELSE IF rpmvercmp(v1.version, v2.version) # 0 THEN rpmvercmp(v1.version, v2.version)
    ELSE rpmvercmp(v1.release, v2.release)

\* ---- go-deb-version

\* Characters allowed besides letters and digits.
DebUpstreamSymbols == {".", "-", "+", "~", ":", "_"}

DebRevisionSymbols == {"+", ".", "~", "_"}

DebOnly(s, symbols) ==
    \A i \in 1..Len(s) : IsDigit(s[i]) \/ IsLetter(s[i]) \/ s[i] \in symbols

\* debversion.NewVersion: <<v>>, or << >> when it returns an error (an epoch
\* that is not a non-negative number, an upstream version that is empty, does
\* not start with a digit or holds a character outside the allowed ones, or a
\* revision that holds such a character).
debNewVersion(str) ==
    LET ver   == TrimSpace(str)
        colon == Index(ver, <<":">>)
        epoch == IF colon >= 0 THEN Atoi(Slice(ver, 0, colon)) ELSE <<TRUE, 0>>
        rest  == IF colon >= 0 THEN Slice(ver, colon + 1, Len(ver)) ELSE ver
        dash  == LastIndex(rest, <<"-">>)
        upstream == IF dash >= 0 THEN Slice(rest, 0, dash) ELSE rest
        revision == IF dash >= 0 THEN Slice(rest, dash + 1, Len(rest)) ELSE << >>
    IN  IF /\ epoch[1]
           /\ epoch[2] >= 0
           /\ upstream # << >>
           /\ IsDigit(upstream[1])
           /\ DebOnly(upstream, DebUpstreamSymbols)
           /\ DebOnly(revision, DebRevisionSymbols)
        THEN <<[epoch |-> epoch[2], upstreamVersion |-> upstream,
                debianRevision |-> revision]>>
        ELSE << >>

DebClass ==
    [c \in Chars |-> IF IsDigit(c) THEN "digit" ELSE "other"]

\* order: letters sort before the other characters, a tilde before everything.
debOrder(c) ==
    IF IsLetter(c) THEN Code(c) ELSE IF c = "~" THEN -1 ELSE Code(c) + 256

\* The order of position i of a string: 0 past its end.
debOrderAt(s, i) == IF i <= Len(s) THEN debOrder(s[i]) ELSE 0

\* compareString: the sign of the first difference of two non-digit parts.
debCompareString(s1, s2) ==
    LET n    == IF Len(s1) > Len(s2) THEN Len(s1) ELSE Len(s2)
        diff == {i \in 1..n : debOrderAt(s1, i) # debOrderAt(s2, i)}
    IN  IF diff = {} THEN 0
        ELSE IF debOrderAt(s1, Min(diff)) < debOrderAt(s2, Min(diff)) THEN -1
        ELSE 1

\* The i-th element of a list of parts, the zero value past its end.
PartAt(parts, i, zero) == IF i <= Len(parts) THEN parts[i] ELSE zero

\* The non-digit parts of s; a string that starts with a digit has an empty
\* first non-digit part.
debStrings(s) ==
    IF s # << >> /\ IsDigit(s[1])
    THEN <<<< >>>> \o RunsFrom(s, DebClass, {"other"}, {})
    ELSE RunsFrom(s, DebClass, {"other"}, {})

debNumbers(s) == RunsFrom(s, DebClass, {"digit"}, {})

\* compare: non-digit part, then number, alternately; -1, 0 or 1.
debPartsCompare(s1, s2) ==
    LET str1 == debStrings(s1)
        str2 == debStrings(s2)
        num1 == debNumbers(s1)
        num2 == debNumbers(s2)
        n    == Max({Len(str1), Len(str2), Len(num1), Len(num2)})
        stringDiff(i) == debCompareString(PartAt(str1, i, << >>), PartAt(str2, i, << >>))
        numberDiff(i) ==
            DigitsValue(PartAt(num1, i, << >>)) - DigitsValue(PartAt(num2, i, << >>))
        diff == {i \in 1..n : stringDiff(i) # 0 \/ numberDiff(i) # 0}
    IN  IF s1 = s2 \/ diff = {} THEN 0
        ELSE IF stringDiff(Min(diff)) # 0 THEN stringDiff(Min(diff))
        ELSE IF numberDiff(Min(diff)) < 0 THEN -1
        ELSE 1

\* Version.Compare of go-deb-version
debCompare(v1, v2) ==
    IF v1 = v2 THEN 0
    ELSE IF v1.epoch > v2.epoch THEN 1
    ELSE IF v1.epoch < v2.epoch THEN -1
    ELSE IF debPartsCompare(v1.upstreamVersion, v2.upstreamVersion) # 0
    THEN debPartsCompare(v1.upstreamVersion, v2.upstreamVersion)
    ELSE debPartsCompare(v1.debianRevision, v2.debianRevision)

(***************************************************************************)
(* isPackageFixed (main.go)                                                *)
(***************************************************************************)

\* isPackageFixed without the test for an empty fixedVersion.
isPackageFixed_NoEmptyCheck(pkgVer, fixedVer, d) ==
    IF d = DistroUbuntu
    THEN IF debNewVersion(pkgVer) = << >> THEN FALSE
         ELSE IF debNewVersion(fixedVer) = << >> THEN FALSE
         ELSE debCompare(debNewVersion(pkgVer)[1], debNewVersion(fixedVer)[1]) >= 0
    ELSE IF d = DistroAzureLinux \/ d = DistroMariner
    THEN rpmCompare(rpmNewVersion(pkgVer), rpmNewVersion(fixedVer)) >= 0
    ELSE FALSE

\* isPackageFixed whose default case compares in the RPM ordering.
isPackageFixed_DefaultIsRpm(pkgVer, fixedVer, d) ==
    IF fixedVer = << >> THEN FALSE
    ELSE IF d = DistroUbuntu
    THEN IF debNewVersion(pkgVer) = << >> THEN FALSE
         ELSE IF debNewVersion(fixedVer) = << >> THEN FALSE
         ELSE debCompare(debNewVersion(pkgVer)[1], debNewVersion(fixedVer)[1]) >= 0
    ELSE rpmCompare(rpmNewVersion(pkgVer), rpmNewVersion(fixedVer)) >= 0

\* isPackageFixed with > for >= in the Debian case: an installed version equal
\* to the fixed one is not fixed.
isPackageFixed_DebStrictlyNewer(pkgVer, fixedVer, d) ==
    IF fixedVer = << >> THEN FALSE
    ELSE IF d = DistroUbuntu
    THEN IF debNewVersion(pkgVer) = << >> THEN FALSE
         ELSE IF debNewVersion(fixedVer) = << >> THEN FALSE
         ELSE debCompare(debNewVersion(pkgVer)[1], debNewVersion(fixedVer)[1]) > 0
    ELSE IF d = DistroAzureLinux \/ d = DistroMariner
    THEN rpmCompare(rpmNewVersion(pkgVer), rpmNewVersion(fixedVer)) >= 0
    ELSE FALSE

\* isPackageFixed with > for >= under Mariner only.
isPackageFixed_MarinerStrictlyNewer(pkgVer, fixedVer, d) ==
    IF fixedVer = << >> THEN FALSE
    ELSE IF d = DistroUbuntu
    THEN IF debNewVersion(pkgVer) = << >> THEN FALSE
         ELSE IF debNewVersion(fixedVer) = << >> THEN FALSE
         ELSE debCompare(debNewVersion(pkgVer)[1], debNewVersion(fixedVer)[1]) >= 0
    ELSE IF d = DistroAzureLinux
    THEN rpmCompare(rpmNewVersion(pkgVer), rpmNewVersion(fixedVer)) >= 0
    ELSE IF d = DistroMariner
    THEN rpmCompare(rpmNewVersion(pkgVer), rpmNewVersion(fixedVer)) > 0
    ELSE FALSE

\* isPackageFixed that takes a fixed version debversion.NewVersion rejects
\* for a fix already installed.
isPackageFixed_BadFixedIsFixed(pkgVer, fixedVer, d) ==
    IF fixedVer = << >> THEN FALSE
    ELSE IF d = DistroUbuntu
    THEN IF debNewVersion(pkgVer) = << >> THEN FALSE
         ELSE IF debNewVersion(fixedVer) = << >> THEN TRUE
         ELSE debCompare(debNewVersion(pkgVer)[1], debNewVersion(fixedVer)[1]) >= 0
    ELSE IF d = DistroAzureLinux \/ d = DistroMariner
    THEN rpmCompare(rpmNewVersion(pkgVer), rpmNewVersion(fixedVer)) >= 0
    ELSE FALSE

isPackageFixed(pkgVer, fixedVer, d) ==
    IF fixedVer = << >> THEN FALSE
    ELSE IF d = DistroUbuntu
    THEN IF debNewVersion(pkgVer) = << >> THEN FALSE
         ELSE IF debNewVersion(fixedVer) = << >> THEN FALSE
         ELSE debCompare(debNewVersion(pkgVer)[1], debNewVersion(fixedVer)[1]) >= 0
    ELSE IF d = DistroAzureLinux \/ d = DistroMariner
    THEN rpmCompare(rpmNewVersion(pkgVer), rpmNewVersion(fixedVer)) >= 0
    ELSE FALSE

(***************************************************************************)
(* Bounds of the model.                                                    *)
(***************************************************************************)

\* Lines the scanner delivers before the stream ends or fails.
MaxLines == 5

\* The lines an input stream is made of: the five markers, the two ignored
\* lines, one line of each package grammar, an image line, os-release lines
\* with each recognised ID, an unrecognised ID, a recognised key other than
\* ID and an unrecognised key, a line of narrative text, a marker with
\* surrounding white space, a near miss of a marker, and a bare image prefix.
Lines ==
    {MarkerPackagesBegin, MarkerPackagesEnd, MarkerOSReleaseBegin, MarkerOSReleaseEnd,
     MarkerContainerImages, << >>, Listing, LineApt, LineRpm, LineImage,
     LineIdAzureLinux, LineIdMariner, LineIdUbuntu, LineIdDebian, LineIdFedora,
     LineName, LineHomeUrl, LineNarrative, LinePaddedPackagesEnd, LineNearMissBegin,
     LinePrefixOnly}

(***************************************************************************)
(* Errors.  ErrNil is the nil error; the other three are the errors Parse  *)
(* can return.                                                             *)
(***************************************************************************)

ErrNil == "nil"

ErrNoPackageSection == "no package section found"

ErrNilReader == "reader cannot be nil"

\* The read errors of a stream: the scanner's own and one of the reader.
ReadErrors == {"bufio.Scanner: token too long", "unexpected EOF"}

\* ErrReading that returns the no-content sentinel.
ErrReading_NoContent(err) == ErrNoPackageSection

\* fmt.Errorf("error reading content: %w", err): the message of the wrapped
\* error follows the prefix.
ErrReading(err) == "error reading content: " \o err

(***************************************************************************)
(* State.  The variables of the first group are the locals of one call of  *)
(* Parser.Parse; pc is the position of the call, line the text the scanner *)
(* delivered last, and retResult/retErr the pair it returned (retResult is *)
(* << >> for a nil *ParseResult).  The second group holds one evaluation   *)
(* of isPackageFixed.                                                      *)
(***************************************************************************)
VARIABLES
    pc, line, linesRead,
    inPackageSection, inOSReleaseSection, inContainerImagesSection,
    osReleaseData, ubuntuPackageCount, rpmPackageCount,
    result, detectedDistro, scanErr, retResult, retErr,
    scanned,
    pkgLine, parsed,
    pkgVersion, fixedVersion, distro, verdict,
    checkPc, pkgArg, osRelease, queries, lookup, evaluated, activeVulns, checkErr,
    osLine, osData, imgLine, imgOut,
    evalLog,
    calls,
    stream, streamOut,
    filename, opened, closed, fileOut,
    mainPc, dResult, pkgIndex, lookupCalls, mainQueries, printed, summary

parseVars ==
    <<pc, line, linesRead, inPackageSection, inOSReleaseSection,
      inContainerImagesSection, osReleaseData, ubuntuPackageCount, rpmPackageCount,
      result, detectedDistro, scanErr, retResult, retErr>>

\* The lines the scanner delivered so far, each with the section flags it was
\* read under: a record of the input, not a variable of the program.
histVars == <<scanned>>

evalVars == <<pkgVersion, fixedVersion, distro, verdict>>

\* One call of checkPackageVulnerabilities: its position, its two arguments
\* (pkgArg is << >> before the call and <<p>> in it, osRelease is << >> for
\* nil), the queries made to vulnerability sources, what the source returned
\* (<< >> when none was asked), the argument triples isPackageFixed was called
\* with, and the returned pair.
checkVars == <<checkPc, pkgArg, osRelease, queries, lookup, evaluated, activeVulns, checkErr>>

\* One call of parsePackageLine: its argument, and parsed, which is << >>
\* before the call and <<r>> once it returned r.
lineVars == <<pkgLine, parsed>>

\* One call of parseOSReleaseLine (its line and its map, which it writes in
\* place) and one call of parseContainerImageLine (its line, and imgOut,
\* which is << >> before the call and <<r>> once it returned r).
classVars == <<osLine, osData, imgLine, imgOut>>

\* The evaluations of isPackageFixed made so far, each with its verdict: a
\* record of the calls, not a variable of the program.
logVars == <<evalLog>>

\* The Parse calls in progress on one Parser, each with its own locals.
callVars == <<calls>>

\* One call of Parse on a reader that delivers the lines of stream:
\* streamOut is << >> before the call and <<r>> once it returned r.
streamVars == <<stream, streamOut>>

\* One call of ParseFromFile: its argument, the number of times a file was
\* opened and closed, and fileOut, << >> before the call and <<r>> after.
fileVars == <<filename, opened, closed, fileOut>>

\* main from "Vulnerability scanning summary counters" on: its position, the
\* parse result d, the index of the range loop, the calls of
\* checkPackageVulnerabilities made so far with the error each returned, the
\* queries these calls made to vulnerability sources, the report lines
\* written to standard output, and the summary counters.
mainVars == <<mainPc, dResult, pkgIndex, lookupCalls, mainQueries, printed, summary>>

restVars == <<classVars, logVars, callVars, streamVars, fileVars, mainVars>>

vars == <<parseVars, evalVars, checkVars, histVars, lineVars, restVars>>

\* &ParseResult{Packages: make(...), ContainerImages: make(...)}; OSRelease is
\* << >> for nil and <<r>> for a pointer to r.
EmptyResult == [Packages |-> << >>, ContainerImages |-> << >>, OSRelease |-> << >>]

InitParse ==
    /\ pc = "idle"
    /\ line = << >>
    /\ linesRead = 0
    /\ inPackageSection = FALSE
    /\ inOSReleaseSection = FALSE
    /\ inContainerImagesSection = FALSE
    /\ osReleaseData = EmptyMap
    /\ ubuntuPackageCount = 0
    /\ rpmPackageCount = 0
    /\ result = EmptyResult
    /\ detectedDistro = DistroUnknown
    /\ scanErr = ErrNil
    /\ retResult = << >>
    /\ retErr = ErrNil
    /\ scanned = << >>

InitEval ==
    /\ pkgVersion = << >>
    /\ fixedVersion = << >>
    /\ distro = DistroUnknown
    /\ verdict = << >>

InitCheck ==
    /\ checkPc = "idle"
    /\ pkgArg = << >>
    /\ osRelease = << >>
    /\ queries = << >>
    /\ lookup = << >>
    /\ evaluated = << >>
    /\ activeVulns = << >>
    /\ checkErr = ErrNil

InitLine ==
    /\ pkgLine = << >>
    /\ parsed = << >>

InitClass ==
    /\ osLine = << >>
    /\ osData = EmptyMap
    /\ imgLine = << >>
    /\ imgOut = << >>

InitLog == evalLog = << >>

\* No Parse call is in progress.
InitCalls == calls = << >>

InitStream ==
    /\ stream = << >>
    /\ streamOut = << >>

InitFile ==
    /\ filename = ""
    /\ opened = 0
    /\ closed = 0
    /\ fileOut = << >>

\* The summary counters as declared.
ZeroSummary ==
    [packagesWithVulns |-> 0, packagesWithFixableVulns |-> 0,
     packagesWithUnfixableVulns |-> 0, totalVulns |-> 0, fixableVulns |-> 0,
     unfixableVulns |-> 0]

InitMain ==
    /\ mainPc = "idle"
    /\ dResult = EmptyResult
    /\ pkgIndex = 1
    /\ lookupCalls = << >>
    /\ mainQueries = << >>
    /\ printed = << >>
    /\ summary = ZeroSummary

InitRest == InitClass /\ InitLog /\ InitCalls /\ InitStream /\ InitFile /\ InitMain

\* The groups of the single calls in their initial state.
InitCore == InitParse /\ InitEval /\ InitCheck /\ InitLine

Init == InitCore /\ InitRest

(***************************************************************************)
(* Parser.Parse                                                            *)
(***************************************************************************)

\* if reader == nil { return nil, errors.New("reader cannot be nil") }
ParseNilReader ==
    /\ pc = "idle"
    /\ pc' = "done"
    /\ retResult' = << >>
    /\ retErr' = ErrNilReader
    /\ UNCHANGED <<line, linesRead, inPackageSection, inOSReleaseSection,
                   inContainerImagesSection, osReleaseData, ubuntuPackageCount,
                   rpmPackageCount, result, detectedDistro, scanErr>>
    /\ UNCHANGED <<evalVars, histVars>>
    /\ UNCHANGED <<checkVars, lineVars, restVars>>

\* The declarations before the loop.
ParseBegin ==
    /\ pc = "idle"
    /\ pc' = "scanning"
    /\ result' = EmptyResult
    /\ inPackageSection' = FALSE
    /\ inOSReleaseSection' = FALSE
    /\ inContainerImagesSection' = FALSE
    /\ osReleaseData' = EmptyMap
    /\ ubuntuPackageCount' = 0
    /\ rpmPackageCount' = 0
    /\ UNCHANGED <<line, linesRead, detectedDistro, scanErr, retResult, retErr>>
    /\ UNCHANGED <<evalVars, histVars>>
    /\ UNCHANGED <<checkVars, lineVars, restVars>>

\* The three section flags as one value.
Sections(inPkg, inOS, inImg) ==
    [inPackageSection |-> inPkg, inOSReleaseSection |-> inOS,
     inContainerImagesSection |-> inImg]

\* MarkerSwitch with an os-release Begin case that sets its own flag and leaves
\* the other two as they are.
MarkerSwitch_NoClear(trimmedLine, sec) ==
    IF trimmedLine = MarkerPackagesBegin
    THEN [sec |-> Sections(TRUE, FALSE, FALSE), continue |-> TRUE]
    ELSE IF trimmedLine = MarkerPackagesEnd
    THEN [sec |-> [sec EXCEPT !.inPackageSection = FALSE], continue |-> TRUE]
    ELSE IF trimmedLine = MarkerOSReleaseBegin
    THEN [sec |-> [sec EXCEPT !.inOSReleaseSection = TRUE], continue |-> TRUE]
    ELSE IF trimmedLine = MarkerOSReleaseEnd
    THEN [sec |-> [sec EXCEPT !.inOSReleaseSection = FALSE], continue |-> TRUE]
    ELSE IF trimmedLine = MarkerContainerImages
    THEN [sec |-> Sections(FALSE, FALSE, TRUE), continue |-> TRUE]
    ELSE IF trimmedLine = << >> \/ trimmedLine = Listing
    THEN [sec |-> sec,
          continue |-> (sec.inPackageSection \/ sec.inOSReleaseSection
                           \/ sec.inContainerImagesSection)]
    ELSE [sec |-> sec, continue |-> FALSE]

\* MarkerSwitch without the "Listing..." case label: the line falls out of the
\* switch to the classifier of the active section.
MarkerSwitch_ListingFalls(trimmedLine, sec) ==
    IF trimmedLine = MarkerPackagesBegin
    THEN [sec |-> Sections(TRUE, FALSE, FALSE), continue |-> TRUE]
    ELSE IF trimmedLine = MarkerPackagesEnd
    THEN [sec |-> [sec EXCEPT !.inPackageSection = FALSE], continue |-> TRUE]
    ELSE IF trimmedLine = MarkerOSReleaseBegin
    THEN [sec |-> Sections(FALSE, TRUE, FALSE), continue |-> TRUE]
    ELSE IF trimmedLine = MarkerOSReleaseEnd
    THEN [sec |-> [sec EXCEPT !.inOSReleaseSection = FALSE], continue |-> TRUE]
    ELSE IF trimmedLine = MarkerContainerImages
    THEN [sec |-> Sections(FALSE, FALSE, TRUE), continue |-> TRUE]
    ELSE IF trimmedLine = << >>
    THEN [sec |-> sec,
          continue |-> (sec.inPackageSection \/ sec.inOSReleaseSection
                           \/ sec.inContainerImagesSection)]
    ELSE [sec |-> sec, continue |-> FALSE]

\* MarkerSwitch that takes a line for a marker when it starts with the
\* marker's text.
MarkerSwitch_PrefixMatch(trimmedLine, sec) ==
    IF HasPrefix(trimmedLine, MarkerPackagesBegin)
    THEN [sec |-> Sections(TRUE, FALSE, FALSE), continue |-> TRUE]
    ELSE IF HasPrefix(trimmedLine, MarkerPackagesEnd)
    THEN [sec |-> [sec EXCEPT !.inPackageSection = FALSE], continue |-> TRUE]
    ELSE IF HasPrefix(trimmedLine, MarkerOSReleaseBegin)
    THEN [sec |-> Sections(FALSE, TRUE, FALSE), continue |-> TRUE]
    ELSE IF HasPrefix(trimmedLine, MarkerOSReleaseEnd)
    THEN [sec |-> [sec EXCEPT !.inOSReleaseSection = FALSE], continue |-> TRUE]
    ELSE IF HasPrefix(trimmedLine, MarkerContainerImages)
    THEN [sec |-> Sections(FALSE, FALSE, TRUE), continue |-> TRUE]
    ELSE IF trimmedLine = << >> \/ trimmedLine = Listing
    THEN [sec |-> sec,
          continue |-> (sec.inPackageSection \/ sec.inOSReleaseSection
                           \/ sec.inContainerImagesSection)]
    ELSE [sec |-> sec, continue |-> FALSE]

\* switch trimmedLine: the flags after the switch and whether the case ended
\* in continue.  A blank line or "Listing..." continues only inside a section;
\* outside it falls out of the switch, as every other line does.
MarkerSwitch(trimmedLine, sec) ==
    IF trimmedLine = MarkerPackagesBegin
    THEN [sec |-> Sections(TRUE, FALSE, FALSE), continue |-> TRUE]
    ELSE IF trimmedLine = MarkerPackagesEnd
    THEN [sec |-> [sec EXCEPT !.inPackageSection = FALSE], continue |-> TRUE]
    ELSE IF trimmedLine = MarkerOSReleaseBegin
    THEN [sec |-> Sections(FALSE, TRUE, FALSE), continue |-> TRUE]
    ELSE IF trimmedLine = MarkerOSReleaseEnd
    THEN [sec |-> [sec EXCEPT !.inOSReleaseSection = FALSE], continue |-> TRUE]
    ELSE IF trimmedLine = MarkerContainerImages
    THEN [sec |-> Sections(FALSE, FALSE, TRUE), continue |-> TRUE]
    ELSE IF trimmedLine = << >> \/ trimmedLine = Listing
    THEN [sec |-> sec,
          continue |-> (sec.inPackageSection \/ sec.inOSReleaseSection
                           \/ sec.inContainerImagesSection)]
    ELSE [sec |-> sec, continue |-> FALSE]

\* PackageBranch that skips a package already in the list.
PackageBranch_NoDuplicates(trimmedLine, packages, ubuntuCount, rpmCount) ==
    LET pkg == parsePackageLine(trimmedLine)
    IN  IF pkg # << >> /\ \A i \in DOMAIN packages : packages[i] # pkg[1]
        THEN [Packages |-> Append(packages, pkg[1]),
              ubuntuPackageCount |->
                  IF isUbuntuPackageFormat(trimmedLine) THEN ubuntuCount + 1 ELSE ubuntuCount,
              rpmPackageCount |->
                  IF ~isUbuntuPackageFormat(trimmedLine) /\ isRPMPackageFormat(trimmedLine)
                  THEN rpmCount + 1 ELSE rpmCount]
        ELSE [Packages |-> packages, ubuntuPackageCount |-> ubuntuCount,
              rpmPackageCount |-> rpmCount]

\* PackageBranch with the RPM format asked first when counting.
PackageBranch_RpmCountedFirst(trimmedLine, packages, ubuntuCount, rpmCount) ==
    LET pkg == parsePackageLine(trimmedLine)
    IN  IF pkg # << >>
        THEN [Packages |-> Append(packages, pkg[1]),
              ubuntuPackageCount |->
                  IF ~isRPMPackageFormat(trimmedLine) /\ isUbuntuPackageFormat(trimmedLine)
                  THEN ubuntuCount + 1 ELSE ubuntuCount,
              rpmPackageCount |->
                  IF isRPMPackageFormat(trimmedLine) THEN rpmCount + 1 ELSE rpmCount]
        ELSE [Packages |-> packages, ubuntuPackageCount |-> ubuntuCount,
              rpmPackageCount |-> rpmCount]

\* Packages and the two counters after the inPackageSection branch.
PackageBranch(trimmedLine, packages, ubuntuCount, rpmCount) ==
    LET pkg == parsePackageLine(trimmedLine)
    IN  IF pkg # << >>
        THEN [Packages |-> Append(packages, pkg[1]),
              ubuntuPackageCount |->
                  IF isUbuntuPackageFormat(trimmedLine) THEN ubuntuCount + 1 ELSE ubuntuCount,
              rpmPackageCount |->
                  IF ~isUbuntuPackageFormat(trimmedLine) /\ isRPMPackageFormat(trimmedLine)
                  THEN rpmCount + 1 ELSE rpmCount]
        ELSE [Packages |-> packages, ubuntuPackageCount |-> ubuntuCount,
              rpmPackageCount |-> rpmCount]

\* ContainerBranch without the implicit exit: a line without the prefix is
\* skipped and the section stays open.
ContainerBranch_NoExit(l, trimmedLine, images) ==
    IF HasPrefix(l, ImagePrefix)
    THEN LET image == parseContainerImageLine(l)
         IN  [ContainerImages |-> IF image # << >> THEN Append(images, image[1]) ELSE images,
              inContainerImagesSection |-> TRUE]
    ELSE [ContainerImages |-> images, inContainerImagesSection |-> TRUE]

\* ContainerBranch that leaves the section on a prefixed line without a name.
ContainerBranch_NilImageExits(l, trimmedLine, images) ==
    IF HasPrefix(l, ImagePrefix)
    THEN LET image == parseContainerImageLine(l)
         IN  [ContainerImages |-> IF image # << >> THEN Append(images, image[1]) ELSE images,
              inContainerImagesSection |-> (image # << >>)]
    ELSE [ContainerImages |-> images, inContainerImagesSection |-> (trimmedLine = << >>)]

\* Images and the container flag after the inContainerImagesSection branch.
ContainerBranch(l, trimmedLine, images) ==
    IF HasPrefix(l, ImagePrefix)
    THEN LET image == parseContainerImageLine(l)
         IN  [ContainerImages |-> IF image # << >> THEN Append(images, image[1]) ELSE images,
              inContainerImagesSection |-> TRUE]
    ELSE [ContainerImages |-> images, inContainerImagesSection |-> (trimmedLine = << >>)]

\* The iteration with the package branch taken outside every section too.
ScanLine_OutsideSectionParsed(l) ==
    /\ pc = "scanning"
    /\ linesRead < MaxLines
    /\ line' = l
    /\ linesRead' = linesRead + 1
    /\ LET trimmedLine == TrimSpace(l)
           sw == MarkerSwitch(trimmedLine,
                     Sections(inPackageSection, inOSReleaseSection, inContainerImagesSection))
       IN  IF sw.continue
           THEN /\ inPackageSection' = sw.sec.inPackageSection
                /\ inOSReleaseSection' = sw.sec.inOSReleaseSection
                /\ inContainerImagesSection' = sw.sec.inContainerImagesSection
                /\ UNCHANGED <<result, osReleaseData, ubuntuPackageCount, rpmPackageCount>>
           ELSE IF inPackageSection \/ (~inOSReleaseSection /\ ~inContainerImagesSection)
           THEN LET b == PackageBranch(trimmedLine, result.Packages,
                                       ubuntuPackageCount, rpmPackageCount)
                IN  /\ result' = [result EXCEPT !.Packages = b.Packages]
                    /\ ubuntuPackageCount' = b.ubuntuPackageCount
                    /\ rpmPackageCount' = b.rpmPackageCount
                    /\ UNCHANGED <<inPackageSection, inOSReleaseSection,
                                   inContainerImagesSection, osReleaseData>>
           ELSE IF inOSReleaseSection
           THEN /\ osReleaseData' = parseOSReleaseLine(trimmedLine, osReleaseData)
                /\ UNCHANGED <<inPackageSection, inOSReleaseSection,
                               inContainerImagesSection, result, ubuntuPackageCount,
                               rpmPackageCount>>
           ELSE IF inContainerImagesSection
           THEN LET b == ContainerBranch(l, trimmedLine, result.ContainerImages)
                IN  /\ result' = [result EXCEPT !.ContainerImages = b.ContainerImages]
                    /\ inContainerImagesSection' = b.inContainerImagesSection
                    /\ UNCHANGED <<inPackageSection, inOSReleaseSection, osReleaseData,
                                   ubuntuPackageCount, rpmPackageCount>>
           ELSE UNCHANGED <<inPackageSection, inOSReleaseSection, inContainerImagesSection,
                            result, osReleaseData, ubuntuPackageCount, rpmPackageCount>>
    /\ UNCHANGED <<pc, detectedDistro, scanErr, retResult, retErr>>
    /\ UNCHANGED evalVars
    /\ UNCHANGED <<checkVars, lineVars, restVars>>

\* The iteration with a packages section that a line of neither grammar
\* closes.
ScanLine_PackagesImplicitExit(l) ==
    /\ pc = "scanning"
    /\ linesRead < MaxLines
    /\ line' = l
    /\ linesRead' = linesRead + 1
    /\ LET trimmedLine == TrimSpace(l)
           sw == MarkerSwitch(trimmedLine,
                     Sections(inPackageSection, inOSReleaseSection, inContainerImagesSection))
       IN  IF sw.continue
           THEN /\ inPackageSection' = sw.sec.inPackageSection
                /\ inOSReleaseSection' = sw.sec.inOSReleaseSection
                /\ inContainerImagesSection' = sw.sec.inContainerImagesSection
                /\ UNCHANGED <<result, osReleaseData, ubuntuPackageCount, rpmPackageCount>>
           ELSE IF inPackageSection
           THEN LET b == PackageBranch(trimmedLine, result.Packages,
                                       ubuntuPackageCount, rpmPackageCount)
                IN  /\ result' = [result EXCEPT !.Packages = b.Packages]
                    /\ ubuntuPackageCount' = b.ubuntuPackageCount
                    /\ rpmPackageCount' = b.rpmPackageCount
                    /\ inPackageSection' = (parsePackageLine(trimmedLine) # << >>)
                    /\ UNCHANGED <<inOSReleaseSection, inContainerImagesSection,
                                   osReleaseData>>
           ELSE IF inOSReleaseSection
           THEN /\ osReleaseData' = parseOSReleaseLine(trimmedLine, osReleaseData)
                /\ UNCHANGED <<inPackageSection, inOSReleaseSection,
                               inContainerImagesSection, result, ubuntuPackageCount,
                               rpmPackageCount>>
           ELSE IF inContainerImagesSection
           THEN LET b == ContainerBranch(l, trimmedLine, result.ContainerImages)
                IN  /\ result' = [result EXCEPT !.ContainerImages = b.ContainerImages]
                    /\ inContainerImagesSection' = b.inContainerImagesSection
                    /\ UNCHANGED <<inPackageSection, inOSReleaseSection, osReleaseData,
                                   ubuntuPackageCount, rpmPackageCount>>
           ELSE UNCHANGED <<inPackageSection, inOSReleaseSection, inContainerImagesSection,
                            result, osReleaseData, ubuntuPackageCount, rpmPackageCount>>
    /\ UNCHANGED <<pc, detectedDistro, scanErr, retResult, retErr>>
    /\ UNCHANGED evalVars
    /\ UNCHANGED <<checkVars, lineVars, restVars>>

\* One iteration of the scanner loop, on the line l the scanner delivers.
ScanLine(l) ==
    /\ pc = "scanning"
    /\ linesRead < MaxLines
    /\ line' = l
    /\ linesRead' = linesRead + 1
    /\ LET trimmedLine == TrimSpace(l)
           sw == MarkerSwitch(trimmedLine,
                     Sections(inPackageSection, inOSReleaseSection, inContainerImagesSection))
       IN  IF sw.continue
           THEN /\ inPackageSection' = sw.sec.inPackageSection
                /\ inOSReleaseSection' = sw.sec.inOSReleaseSection
                /\ inContainerImagesSection' = sw.sec.inContainerImagesSection
                /\ UNCHANGED <<result, osReleaseData, ubuntuPackageCount, rpmPackageCount>>
           ELSE IF inPackageSection
           THEN LET b == PackageBranch(trimmedLine, result.Packages,
                                       ubuntuPackageCount, rpmPackageCount)
                IN  /\ result' = [result EXCEPT !.Packages = b.Packages]
                    /\ ubuntuPackageCount' = b.ubuntuPackageCount
                    /\ rpmPackageCount' = b.rpmPackageCount
                    /\ UNCHANGED <<inPackageSection, inOSReleaseSection,
                                   inContainerImagesSection, osReleaseData>>
           ELSE IF inOSReleaseSection
           THEN /\ osReleaseData' = parseOSReleaseLine(trimmedLine, osReleaseData)
                /\ UNCHANGED <<inPackageSection, inOSReleaseSection,
                               inContainerImagesSection, result, ubuntuPackageCount,
                               rpmPackageCount>>
           ELSE IF inContainerImagesSection
           THEN LET b == ContainerBranch(l, trimmedLine, result.ContainerImages)
                IN  /\ result' = [result EXCEPT !.ContainerImages = b.ContainerImages]
                    /\ inContainerImagesSection' = b.inContainerImagesSection
                    /\ UNCHANGED <<inPackageSection, inOSReleaseSection, osReleaseData,
                                   ubuntuPackageCount, rpmPackageCount>>
           ELSE UNCHANGED <<inPackageSection, inOSReleaseSection, inContainerImagesSection,
                            result, osReleaseData, ubuntuPackageCount, rpmPackageCount>>
    /\ UNCHANGED <<pc, detectedDistro, scanErr, retResult, retErr>>
    /\ UNCHANGED evalVars
    /\ UNCHANGED <<checkVars, lineVars, restVars>>

\* ScanFail that hands back what was extracted before the failure.
ScanFail_PartialResult ==
    /\ pc = "scanning"
    /\ pc' = "done"
    /\ scanErr' \in ReadErrors
    /\ retResult' = <<result>>
    /\ retErr' = ErrReading(scanErr')
    /\ UNCHANGED <<line, linesRead, inPackageSection, inOSReleaseSection,
                   inContainerImagesSection, osReleaseData, ubuntuPackageCount,
                   rpmPackageCount, result, detectedDistro>>
    /\ UNCHANGED <<evalVars, histVars>>
    /\ UNCHANGED <<checkVars, lineVars, restVars>>

\* scanner.Err() != nil after the loop: the stream failed with one of the
\* read errors.
ScanFail ==
    /\ pc = "scanning"
    /\ pc' = "done"
    /\ scanErr' \in ReadErrors
    /\ retResult' = << >>
    /\ retErr' = ErrReading(scanErr')
    /\ UNCHANGED <<line, linesRead, inPackageSection, inOSReleaseSection,
                   inContainerImagesSection, osReleaseData, ubuntuPackageCount,
                   rpmPackageCount, result, detectedDistro>>
    /\ UNCHANGED <<evalVars, histVars>>
    /\ UNCHANGED <<checkVars, lineVars, restVars>>

\* detectedDistro after "First try to detect from OS release ID if available".
DistroFromOSRelease(data) ==
    IF DOMAIN data # {} THEN detectDistroFromID(MapGet(data, KeyID)) ELSE DistroUnknown

\* DetectDistro that consults the counters only when no os-release data was
\* recorded: an unrecognised ID stays Unknown.
DetectDistro_NoFallThrough(data, ubuntuCount, rpmCount) ==
    IF DOMAIN data = {}
    THEN IF rpmCount > ubuntuCount THEN DistroAzureLinux
         ELSE IF ubuntuCount > rpmCount THEN DistroUbuntu
         ELSE DistroUnknown
    ELSE DistroFromOSRelease(data)

\* DetectDistro with >= for >: equal counters choose AzureLinux.
DetectDistro_TieIsRpm(data, ubuntuCount, rpmCount) ==
    IF DistroFromOSRelease(data) = DistroUnknown
    THEN IF rpmCount >= ubuntuCount THEN DistroAzureLinux
         ELSE IF ubuntuCount > rpmCount THEN DistroUbuntu
         ELSE DistroUnknown
    ELSE DistroFromOSRelease(data)

\* DetectDistro that lets unequal counters override the os-release ID.
DetectDistro_CountersFirst(data, ubuntuCount, rpmCount) ==
    IF rpmCount > ubuntuCount THEN DistroAzureLinux
    ELSE IF ubuntuCount > rpmCount THEN DistroUbuntu
    ELSE DistroFromOSRelease(data)

\* DetectDistro with the vote of the counters swapped.
DetectDistro_VoteSwapped(data, ubuntuCount, rpmCount) ==
    IF DistroFromOSRelease(data) = DistroUnknown
    THEN IF rpmCount > ubuntuCount THEN DistroUbuntu
         ELSE IF ubuntuCount > rpmCount THEN DistroAzureLinux
         ELSE DistroUnknown
    ELSE DistroFromOSRelease(data)

\* detectedDistro after "If OS release didn't provide clear answer, use
\* package counts".
DetectDistro(data, ubuntuCount, rpmCount) ==
    IF DistroFromOSRelease(data) = DistroUnknown
    THEN IF rpmCount > ubuntuCount THEN DistroAzureLinux
         ELSE IF ubuntuCount > rpmCount THEN DistroUbuntu
         ELSE DistroUnknown
    ELSE DistroFromOSRelease(data)

\* BuildOSRelease that also reports a distro the counters decided.
BuildOSRelease_WhenDistroKnown(data, d) ==
    IF DOMAIN data # {} \/ d # DistroUnknown
    THEN <<[Name |-> MapGet(data, KeyNAME), VersionID |-> MapGet(data, KeyVERSION_ID),
            Version |-> MapGet(data, KeyVERSION), PrettyName |-> MapGet(data, KeyPRETTY_NAME),
            ID |-> MapGet(data, KeyID), Distro |-> d]>>
    ELSE << >>

\* result.OSRelease after "Build OS release info if we found any".
BuildOSRelease(data, d) ==
    IF DOMAIN data # {}
    THEN <<[Name |-> MapGet(data, KeyNAME), VersionID |-> MapGet(data, KeyVERSION_ID),
            Version |-> MapGet(data, KeyVERSION), PrettyName |-> MapGet(data, KeyPRETTY_NAME),
            ID |-> MapGet(data, KeyID), Distro |-> d]>>
    ELSE << >>

\* FinalError that looks at the package list alone.
FinalError_PackagesOnly(r) ==
    IF Len(r.Packages) = 0 THEN ErrNoPackageSection ELSE ErrNil

\* The error of the final return.
FinalError(r) ==
    IF Len(r.Packages) = 0 /\ Len(r.ContainerImages) = 0 /\ r.OSRelease = << >>
    THEN ErrNoPackageSection
    ELSE ErrNil

\* The stream ended (scanner.Err() == nil): everything after the loop.
ScanEnd ==
    /\ pc = "scanning"
    /\ pc' = "done"
    /\ detectedDistro' = DetectDistro(osReleaseData, ubuntuPackageCount, rpmPackageCount)
    /\ result' = [result EXCEPT !.OSRelease = BuildOSRelease(osReleaseData, detectedDistro')]
    /\ retResult' = <<result'>>
    /\ retErr' = FinalError(result')
    /\ UNCHANGED <<line, linesRead, inPackageSection, inOSReleaseSection,
                   inContainerImagesSection, osReleaseData, ubuntuPackageCount,
                   rpmPackageCount, scanErr>>
    /\ UNCHANGED <<evalVars, histVars>>
    /\ UNCHANGED <<checkVars, lineVars, restVars>>

(***************************************************************************)
(* Parse as a function of the lines its reader delivers and of the error   *)
(* the reader ends with.  A call's locals are one record.                  *)
(***************************************************************************)

\* The locals of Parse as declared before the loop.
ParseLocals ==
    [inPackageSection |-> FALSE, inOSReleaseSection |-> FALSE,
     inContainerImagesSection |-> FALSE, osReleaseData |-> EmptyMap,
     ubuntuPackageCount |-> 0, rpmPackageCount |-> 0, result |-> EmptyResult]

\* The iteration with the package classifier given the line as read instead
\* of its trimmed text.
ScanState_RawLine(st, l) ==
    LET trimmedLine == TrimSpace(l)
        sw == MarkerSwitch(trimmedLine,
                  Sections(st.inPackageSection, st.inOSReleaseSection,
                           st.inContainerImagesSection))
    IN  IF sw.continue
        THEN [st EXCEPT !.inPackageSection = sw.sec.inPackageSection,
                        !.inOSReleaseSection = sw.sec.inOSReleaseSection,
                        !.inContainerImagesSection = sw.sec.inContainerImagesSection]
        ELSE IF st.inPackageSection
        THEN LET b == PackageBranch(l, st.result.Packages,
                                    st.ubuntuPackageCount, st.rpmPackageCount)
             IN  [st EXCEPT !.result.Packages = b.Packages,
                            !.ubuntuPackageCount = b.ubuntuPackageCount,
                            !.rpmPackageCount = b.rpmPackageCount]
        ELSE IF st.inOSReleaseSection
        THEN [st EXCEPT !.osReleaseData = parseOSReleaseLine(trimmedLine, st.osReleaseData)]
        ELSE IF st.inContainerImagesSection
        THEN LET b == ContainerBranch(l, trimmedLine, st.result.ContainerImages)
             IN  [st EXCEPT !.result.ContainerImages = b.ContainerImages,
                            !.inContainerImagesSection = b.inContainerImagesSection]
        ELSE st

\* The iteration with package lines classified only once os-release data
\* has been read.
ScanState_PackagesAfterRelease(st, l) ==
    LET trimmedLine == TrimSpace(l)
        sw == MarkerSwitch(trimmedLine,
                  Sections(st.inPackageSection, st.inOSReleaseSection,
                           st.inContainerImagesSection))
    IN  IF sw.continue
        THEN [st EXCEPT !.inPackageSection = sw.sec.inPackageSection,
                        !.inOSReleaseSection = sw.sec.inOSReleaseSection,
                        !.inContainerImagesSection = sw.sec.inContainerImagesSection]
        ELSE IF st.inPackageSection
        THEN IF st.osReleaseData = EmptyMap
             THEN st
             ELSE LET b == PackageBranch(trimmedLine, st.result.Packages,
                                         st.ubuntuPackageCount, st.rpmPackageCount)
                  IN  [st EXCEPT !.result.Packages = b.Packages,
                                 !.ubuntuPackageCount = b.ubuntuPackageCount,
                                 !.rpmPackageCount = b.rpmPackageCount]
        ELSE IF st.inOSReleaseSection
        THEN [st EXCEPT !.osReleaseData = parseOSReleaseLine(trimmedLine, st.osReleaseData)]
        ELSE IF st.inContainerImagesSection
        THEN LET b == ContainerBranch(l, trimmedLine, st.result.ContainerImages)
             IN  [st EXCEPT !.result.ContainerImages = b.ContainerImages,
                            !.inContainerImagesSection = b.inContainerImagesSection]
        ELSE st

\* The locals after one iteration of the scanner loop on the line l.
ScanState(st, l) ==
    LET trimmedLine == TrimSpace(l)
        sw == MarkerSwitch(trimmedLine,
                  Sections(st.inPackageSection, st.inOSReleaseSection,
                           st.inContainerImagesSection))
    IN  IF sw.continue
        THEN [st EXCEPT !.inPackageSection = sw.sec.inPackageSection,
                        !.inOSReleaseSection = sw.sec.inOSReleaseSection,
                        !.inContainerImagesSection = sw.sec.inContainerImagesSection]
        ELSE IF st.inPackageSection
        THEN LET b == PackageBranch(trimmedLine, st.result.Packages,
                                    st.ubuntuPackageCount, st.rpmPackageCount)
             IN  [st EXCEPT !.result.Packages = b.Packages,
                            !.ubuntuPackageCount = b.ubuntuPackageCount,
                            !.rpmPackageCount = b.rpmPackageCount]
        ELSE IF st.inOSReleaseSection
        THEN [st EXCEPT !.osReleaseData = parseOSReleaseLine(trimmedLine, st.osReleaseData)]
        ELSE IF st.inContainerImagesSection
        THEN LET b == ContainerBranch(l, trimmedLine, st.result.ContainerImages)
             IN  [st EXCEPT !.result.ContainerImages = b.ContainerImages,
                            !.inContainerImagesSection = b.inContainerImagesSection]
        ELSE st

RECURSIVE ScanAll(_, _)
\* The locals after the loop has read all of lines.
ScanAll(st, lines) ==
    IF lines = << >> THEN st ELSE ScanAll(ScanState(st, Head(lines)), Tail(lines))

\* The pair Parse returns after the loop left the locals st and scanner.Err()
\* is err; ret is << >> for a nil result.
ParseReturn(st, err) ==
    IF err # ErrNil
    THEN [ret |-> << >>, err |-> ErrReading(err)]
    ELSE LET d == DetectDistro(st.osReleaseData, st.ubuntuPackageCount, st.rpmPackageCount)
             r == [st.result EXCEPT !.OSRelease = BuildOSRelease(st.osReleaseData, d)]
         IN  [ret |-> <<r>>, err |-> FinalError(r)]

\* Parse(reader) for a non-nil reader that delivers lines and ends with err.
ParseReader(lines, err) == ParseReturn(ScanAll(ParseLocals, lines), err)

Next ==
    \/ ParseNilReader
    \/ ParseBegin
    \/ \E l \in Lines : ScanLine(l) /\ UNCHANGED histVars
    \/ ScanFail
    \/ ScanEnd

Spec == Init /\ [][Next]_vars

(***************************************************************************)
(* Parse with a record of its input: every line the scanner delivers is    *)
(* appended to scanned, with the package and container flags it was read   *)
(* under.                                                                  *)
(***************************************************************************)

\* The lines of the recorded streams: the two package markers, the container
\* marker, a line of each package grammar, an image line and a line of
\* narrative text.
HistLines ==
    {MarkerPackagesBegin, MarkerPackagesEnd, MarkerContainerImages, LineApt, LineRpm,
     LineImage, LineNarrative}

Scanned(l, inPackages, inImages) ==
    [line |-> l, inPackageSection |-> inPackages, inContainerImagesSection |-> inImages]

NextHist ==
    \/ ParseNilReader
    \/ ParseBegin
    \/ \E l \in HistLines :
           /\ ScanLine(l)
           /\ scanned' = Append(scanned,
                                Scanned(l, inPackageSection, inContainerImagesSection))
    \/ ScanFail
    \/ ScanEnd

SpecHist == Init /\ [][NextHist]_vars

(***************************************************************************)
(* One evaluation of isPackageFixed on an installed version, an advisory's *)
(* fixed version and a distro.                                             *)
(***************************************************************************)

\* The version strings an evaluation is drawn from: the empty string, Debian
\* and RPM versions that are equal, older and newer, a string that is no
\* Debian version, a version with an epoch and one with a tilde.
Versions ==
    {VerEmpty, VerDeb1, VerDeb2, VerInvalid, VerRpm3, VerRpm4, VerRpm5, VerEpoch, VerTilde}

\* OSDistro is an int type: the distro argument is one of the four constants
\* or a value outside them.
OSDistroValues == OSDistros \cup {DistroMariner + 1}

InitEvalInputs ==
    /\ InitParse
    /\ InitCheck
    /\ InitLine
    /\ InitRest
    /\ pkgVersion \in Versions
    /\ fixedVersion \in Versions
    /\ distro \in OSDistroValues
    /\ verdict = << >>

\* verdict is << >> before the call and <<b>> once isPackageFixed returned b.
Evaluate ==
    /\ verdict' = <<isPackageFixed(pkgVersion, fixedVersion, distro)>>
    /\ UNCHANGED <<pkgVersion, fixedVersion, distro>>
    /\ UNCHANGED parseVars
    /\ UNCHANGED <<checkVars, histVars, lineVars, restVars>>

NextEval == Evaluate

SpecEval == InitEvalInputs /\ [][NextEval]_vars

(***************************************************************************)
(* checkPackageVulnerabilities (main.go).  The vulnerability sources are   *)
(* collaborators outside the program: what Get returns is an input of the  *)
(* call.                                                                   *)
(***************************************************************************)

\* "test-package"
NameTestPackage ==
    <<"t","e","s","t","-","p","a","c","k","a","g","e">>

\* "curl"
NameCurl ==
    <<"c","u","r","l">>

\* "24.04"
VersionId2404 ==
    <<"2","4",".","0","4">>

\* "3.0"
VersionId30 ==
    <<"3",".","0">>

\* types.Advisory, with the two fields the program reads.
Advisory(vulnID, fixedVer) == [VulnerabilityID |-> vulnID, FixedVersion |-> fixedVer]

\* OSDistro.String()
DistroString(d) ==
    IF d = DistroUbuntu THEN "Ubuntu/Debian"
    ELSE IF d = DistroAzureLinux THEN "Azure Linux"
    ELSE IF d = DistroMariner THEN "CBL-Mariner"
    ELSE "Unknown"

ErrOSReleaseRequired == "OS release information required for vulnerability checking"

\* fmt.Errorf("unsupported distribution: %s", osRelease.Distro)
ErrUnsupportedDistribution(d) == "unsupported distribution: " \o DistroString(d)

\* VulnSrc that asks the Ubuntu source for DistroUnknown as well.
VulnSrc_UnknownIsUbuntu(d) ==
    IF d = DistroUbuntu \/ d = DistroUnknown THEN <<"ubuntu">>
    ELSE IF d = DistroAzureLinux THEN <<"azure.Azure">>
    ELSE IF d = DistroMariner THEN <<"azure.Mariner">>
    ELSE << >>

\* VulnSrc that asks the Azure Linux source for Mariner as well.
VulnSrc_MarinerIsAzure(d) ==
    IF d = DistroUbuntu THEN <<"ubuntu">>
    ELSE IF d = DistroAzureLinux \/ d = DistroMariner THEN <<"azure.Azure">>
    ELSE << >>

\* ubuntu.NewVulnSrc(), azure.NewVulnSrc(azure.Azure) or
\* azure.NewVulnSrc(azure.Mariner); << >> in the default case.
VulnSrc(d) ==
    IF d = DistroUbuntu THEN <<"ubuntu">>
    ELSE IF d = DistroAzureLinux THEN <<"azure.Azure">>
    ELSE IF d = DistroMariner THEN <<"azure.Mariner">>
    ELSE << >>

\* vulnSrc.Get(osRelease.VersionID, pkg.Name) on the source src.
Query(src, versionID, name) == [source |-> src, osVer |-> versionID, pkgName |-> name]

RECURSIVE FilterActive_KeepFixed(_, _, _)
RECURSIVE FilterActive(_, _, _)

\* FilterActive with the test inverted: it keeps the fixed advisories.
FilterActive_KeepFixed(ver, allVulns, d) ==
    IF allVulns = << >> THEN << >>
    ELSE IF isPackageFixed(ver, Head(allVulns).FixedVersion, d)
         THEN <<Head(allVulns)>> \o FilterActive_KeepFixed(ver, Tail(allVulns), d)
         ELSE FilterActive_KeepFixed(ver, Tail(allVulns), d)

\* activeVulns after the loop "for _, vuln := range allVulns".
FilterActive(ver, allVulns, d) ==
    IF allVulns = << >> THEN << >>
    ELSE IF ~isPackageFixed(ver, Head(allVulns).FixedVersion, d)
         THEN <<Head(allVulns)>> \o FilterActive(ver, Tail(allVulns), d)
         ELSE FilterActive(ver, Tail(allVulns), d)

\* The calls of isPackageFixed the loop makes, in order.
Evaluations(ver, allVulns, d) ==
    [i \in 1..Len(allVulns) |->
        [pkgVersion |-> ver, fixedVersion |-> allVulns[i].FixedVersion, distro |-> d]]

\* One call checkPackageVulnerabilities(p, rel) in which the source, when one
\* is asked, returns the pair out = (out.allVulns, out.err).
CheckPackageVulnerabilities(p, rel, out) ==
    /\ checkPc = "idle"
    /\ checkPc' = "done"
    /\ pkgArg' = <<p>>
    /\ osRelease' = rel
    /\ IF rel = << >>
       THEN /\ activeVulns' = << >>
            /\ checkErr' = ErrOSReleaseRequired
            /\ UNCHANGED <<queries, lookup, evaluated>>
       ELSE IF VulnSrc(rel[1].Distro) = << >>
       THEN /\ activeVulns' = << >>
            /\ checkErr' = ErrUnsupportedDistribution(rel[1].Distro)
            /\ UNCHANGED <<queries, lookup, evaluated>>
       ELSE /\ queries' = Append(queries,
                               Query(VulnSrc(rel[1].Distro)[1], rel[1].VersionID, p.Name))
            /\ lookup' = <<out>>
            /\ IF out.err # ErrNil
               THEN /\ activeVulns' = << >>
                    /\ checkErr' = out.err
                    /\ UNCHANGED evaluated
               ELSE /\ evaluated' = evaluated \o
                                        Evaluations(p.Version, out.allVulns, rel[1].Distro)
                    /\ activeVulns' = FilterActive(p.Version, out.allVulns, rel[1].Distro)
                    /\ checkErr' = ErrNil
    /\ UNCHANGED parseVars
    /\ UNCHANGED <<evalVars, histVars, lineVars, restVars>>

\* Advisories a source returns at most in one answer.
MaxAdvisories == 3

\* The packages checked: an RPM one and a Debian one.
CheckPackages ==
    {OSPackage(NameTestPackage, VerRpm4), OSPackage(NameCurl, VerDeb1)}

\* &OSRelease{VersionID: versionID, Distro: d}
OSReleaseOf(versionID, d) ==
    [Name |-> << >>, VersionID |-> versionID, Version |-> << >>, PrettyName |-> << >>,
     ID |-> << >>, Distro |-> d]

\* The osRelease arguments: nil, and a release of each distro value.
CheckReleases ==
    {<< >>} \cup {<<OSReleaseOf(v, d)>> : v \in {VersionId2404, VersionId30},
                                          d \in OSDistroValues}

\* The advisories a source knows: one without a fix, and fixes older than,
\* equal to and newer than the installed versions.
Advisories ==
    {Advisory("CVE-2023-9999", VerEmpty), Advisory("CVE-2023-5678", VerRpm3),
     Advisory("CVE-2023-1234", VerRpm5), Advisory("CVE-2023-1111", VerDeb1),
     Advisory("CVE-2023-2222", VerDeb2)}

\* Errors of a source.
LookupErrors == {"bucket not found", "failed to get advisories"}

\* What Get can return: advisories and a nil error, no advisories and an
\* error, or an error next to a non-empty slice.
LookupOutcomes ==
    {[allVulns |-> a, err |-> ErrNil] :
        a \in UNION {[1..n -> Advisories] : n \in 0..MaxAdvisories}}
    \cup {[allVulns |-> << >>, err |-> e] : e \in LookupErrors}
    \cup {[allVulns |-> <<a>>, err |-> e] : a \in Advisories, e \in LookupErrors}

NextCheck ==
    \E p \in CheckPackages, rel \in CheckReleases, out \in LookupOutcomes :
        CheckPackageVulnerabilities(p, rel, out)

SpecCheck == Init /\ [][NextCheck]_vars

(***************************************************************************)
(* One call of parsePackageLine on a line put together from the parts of   *)
(* the RPM form, or on a line of another form.                             *)
(***************************************************************************)

\* "python3-cryptography-42.0.5"
NamePartCryptography ==
    <<"p","y","t","h","o","n","3","-","c","r","y","p","t","o","g","r","a","p","h","y","-",
      "4","2",".","0",".","5">>

\* "python3-cryptography"
NameCryptography ==
    <<"p","y","t","h","o","n","3","-","c","r","y","p","t","o","g","r","a","p","h","y">>

\* "42.0.5-3.azl3"
VersionCryptography ==
    <<"4","2",".","0",".","5","-","3",".","a","z","l","3">>

\* The part of an RPM line before its last hyphen: names with an upstream
\* version, one of them with a digit after an earlier hyphen, names without
\* a version, with and without hyphens, and a part that starts with a hyphen.
NameParts ==
    {NamePartCryptography,
     \* "filesystem-1.1"
     <<"f","i","l","e","s","y","s","t","e","m","-","1",".","1">>,
     \* "cloud-init-azure-kvp-24.3.1"
     <<"c","l","o","u","d","-","i","n","i","t","-","a","z","u","r","e","-","k","v","p","-",
      "2","4",".","3",".","1">>,
     \* "python-3to2-1.0"
     <<"p","y","t","h","o","n","-","3","t","o","2","-","1",".","0">>,
     \* "kernel"
     <<"k","e","r","n","e","l">>,
     \* "gpg-pubkey"
     <<"g","p","g","-","p","u","b","k","e","y">>,
     \* "foo-"
     <<"f","o","o","-">>,
     \* "-1"
     <<"-","1">>}

\* The release of an RPM line: "3", "21" and "10.1".
Releases == {<<"3">>, <<"2","1">>, <<"1","0",".","1">>}

RpmComponents ==
    [namePart : NameParts, release : Releases, dist : {DistAzl3, DistCm2},
     arch : {ArchX86_64, ArchNoarch}]

\* <namepart>-<release>.<dist>.<arch>
RpmLine(c) ==
    c.namePart \o <<"-">> \o c.release \o <<".">> \o c.dist \o <<".">> \o c.arch

\* The parts of an APT line: name, source spec (one of them holding an
\* earlier ",now" group), version, architecture, status, and the text after
\* the closing bracket: none, or a tail that gives the line the RPM form too.
AptComponents ==
    [name :
        {
         \* "adduser"
         <<"a","d","d","u","s","e","r">>,
         \* "bind9-dnsutils"
         <<"b","i","n","d","9","-","d","n","s","u","t","i","l","s">>},
     source :
        {
         \* "noble"
         <<"n","o","b","l","e">>,
         \* "noble-updates,noble-security"
         <<"n","o","b","l","e","-","u","p","d","a","t","e","s",",","n","o","b","l","e","-","s",
           "e","c","u","r","i","t","y">>,
         \* "old,now 0.9 all [residual] noble"
         <<"o","l","d",",","n","o","w"," ","0",".","9"," ","a","l","l"," ","[","r","e","s","i",
           "d","u","a","l","]"," ","n","o","b","l","e">>},
     version :
        {
         \* "3.137ubuntu1"
         <<"3",".","1","3","7","u","b","u","n","t","u","1">>,
         \* "1:9.18.30-0ubuntu0.24.04.2"
         <<"1",":","9",".","1","8",".","3","0","-","0","u","b","u","n","t","u","0",".","2","4",
           ".","0","4",".","2">>},
     arch :
        {
         \* "all"
         <<"a","l","l">>,
         \* "amd64"
         <<"a","m","d","6","4">>},
     status :
        {
         \* "installed,automatic"
         <<"i","n","s","t","a","l","l","e","d",",","a","u","t","o","m","a","t","i","c">>,
         \* "installed"
         <<"i","n","s","t","a","l","l","e","d">>},
     tail :
        {
         \* ""
         << >>,
         \* "-1.azl3.x86_64"
         <<"-","1",".","a","z","l","3",".","x","8","6","_","6","4">>}]

\* <name>/<source>,now <version> <arch> [<status>]<tail>
AptLine(c) ==
    c.name \o <<"/">> \o c.source \o CommaNow \o <<" ">> \o c.version \o <<" ">>
        \o c.arch \o <<" ", "[">> \o c.status \o <<"]">> \o c.tail

\* The lines parsePackageLine is called on: lines of the RPM form, lines of
\* the APT form, and lines of neither form, the empty line and a line of
\* white space among them.
PackageLines ==
    {RpmLine(c) : c \in RpmComponents} \cup {AptLine(c) : c \in AptComponents}
        \cup {LineApt, LineNarrative, << >>, <<" ", " ", "\t">>}

InitLineInputs ==
    /\ InitParse
    /\ InitEval
    /\ InitCheck
    /\ InitRest
    /\ pkgLine \in PackageLines
    /\ parsed = << >>

ParsePackageLine ==
    /\ parsed' = <<parsePackageLine(pkgLine)>>
    /\ UNCHANGED pkgLine
    /\ UNCHANGED <<parseVars, evalVars, checkVars, histVars, restVars>>

NextLine == ParsePackageLine

SpecLine == InitLineInputs /\ [][NextLine]_vars

(***************************************************************************)
(* Properties of Parse and of isPackageFixed.                              *)
(***************************************************************************)

\* Parse returned a result: the stream ended without a read error.
Returned == pc = "done" /\ retResult # << >>

\* No section is active (the tracker state None).
NoSection == ~inPackageSection /\ ~inOSReleaseSection /\ ~inContainerImagesSection

\* The step is one iteration of the scanner loop; line' is the line it read.
ScanStep == pc = "scanning" /\ pc' = "scanning" /\ linesRead' = linesRead + 1

\* The majority vote over the two package-format counters.
CounterVote ==
    IF rpmPackageCount > ubuntuPackageCount THEN DistroAzureLinux
    ELSE IF ubuntuPackageCount > rpmPackageCount THEN DistroUbuntu
    ELSE DistroUnknown

\* The ID values the detector maps to a distro.
KnownIds == {IdUbuntu, IdDebian, IdAzureLinux, IdMariner}

C2_SectionsMutuallyExclusive ==
    /\ ~(inPackageSection /\ inOSReleaseSection)
    /\ ~(inPackageSection /\ inContainerImagesSection)
    /\ ~(inOSReleaseSection /\ inContainerImagesSection)
    /\ (linesRead > 0 /\ TrimSpace(line) = MarkerPackagesBegin) =>
           (inPackageSection /\ ~inOSReleaseSection /\ ~inContainerImagesSection)
    /\ (linesRead > 0 /\ TrimSpace(line) = MarkerOSReleaseBegin) =>
           (inOSReleaseSection /\ ~inPackageSection /\ ~inContainerImagesSection)
    /\ (linesRead > 0 /\ TrimSpace(line) = MarkerContainerImages) =>
           (inContainerImagesSection /\ ~inPackageSection /\ ~inOSReleaseSection)

\* C2 witness: overlapping markers.  Three lines were read, one package was
\* recorded and the last line is the os-release Begin marker, so that marker
\* arrived while the packages section was still open.
C2_Witness_OverlappingMarkers ==
    /\ pc = "scanning"
    /\ linesRead = 3
    /\ Len(result.Packages) = 1
    /\ line = MarkerOSReleaseBegin
    /\ inOSReleaseSection

\* C3: after a line whose trimmed text is "=== Installed Packages End" or
\* "=== os-release End" no section is active, whatever section was active
\* before the line.
C3_EndMarkerLeavesNoSection ==
    (linesRead > 0 /\ TrimSpace(line) \in {MarkerPackagesEnd, MarkerOSReleaseEnd}) =>
        NoSection

\* C4 as stated: in the container-images section every non-blank line that
\* does not start with "  - " records no image and leaves no section active.
C4_AnyUnprefixedLineEndsSection ==
    [][(/\ ScanStep
        /\ inContainerImagesSection
        /\ TrimSpace(line') # << >>
        /\ ~HasPrefix(line', ImagePrefix)) =>
            (NoSection' /\ result' = result)]_vars

\* C4 as amended: in the container-images section a non-blank line without the
\* prefix "  - " whose trimmed text is neither one of the five markers nor
\* "Listing..." records no image and leaves no section active; and with no
\* section active a prefixed line records no image.
C4_UnprefixedLineEndsSection ==
    [][/\ (/\ ScanStep
           /\ inContainerImagesSection
           /\ TrimSpace(line') # << >>
           /\ ~HasPrefix(line', ImagePrefix)
           /\ TrimSpace(line') \notin
                  {MarkerPackagesBegin, MarkerPackagesEnd, MarkerOSReleaseBegin,
                   MarkerOSReleaseEnd, MarkerContainerImages, Listing}) =>
               (NoSection' /\ result' = result)
       /\ (/\ ScanStep
           /\ NoSection
           /\ HasPrefix(line', ImagePrefix)) =>
               (NoSection' /\ result' = result)]_vars

\* C4 witness: marker, image line, a line that ended the section, image line.
\* Four lines were read, the last is an image line, one image is recorded and
\* no section is active.
C4_Witness_ImageAfterImplicitExit ==
    /\ pc = "scanning"
    /\ linesRead = 4
    /\ line = LineImage
    /\ Len(result.ContainerImages) = 1
    /\ NoSection

\* C5: a blank line and a line whose trimmed text is "Listing..." change
\* neither the section flags nor the packages, images, os-release fields and
\* counters, in every tracker state.
C5_BlankAndListingAreNoOps ==
    [][(ScanStep /\ TrimSpace(line') \in {<< >>, Listing}) =>
           UNCHANGED <<inPackageSection, inOSReleaseSection, inContainerImagesSection,
                       result, osReleaseData, ubuntuPackageCount, rpmPackageCount>>]_vars

\* C5 witness: "Listing..." read as third line while the container-images
\* section is open with one image recorded; the section is still open.
C5_Witness_ListingInsideImages ==
    /\ pc = "scanning"
    /\ linesRead = 3
    /\ line = Listing
    /\ inContainerImagesSection
    /\ Len(result.ContainerImages) = 1

\* C6 as stated: an ID recorded with a value other than ubuntu, debian,
\* azurelinux or mariner gives the distro Unknown whatever the counters are.
C6_UnrecognisedIdIsUnknown ==
    (/\ Returned
     /\ KeyID \in DOMAIN osReleaseData
     /\ osReleaseData[KeyID] \notin KnownIds) =>
        retResult[1].OSRelease[1].Distro = DistroUnknown

\* C6 as amended: an ID recorded with a value other than ubuntu, debian,
\* azurelinux or mariner gives the distro the counters vote for: AzureLinux
\* with more RPM lines, Ubuntu/Debian with more APT lines, Unknown when the
\* counters are equal.
C6_UnrecognisedIdFallsBackToCounters ==
    (/\ Returned
     /\ KeyID \in DOMAIN osReleaseData
     /\ osReleaseData[KeyID] \notin KnownIds) =>
        retResult[1].OSRelease[1].Distro = CounterVote

\* C6 witness: ID=fedora and more RPM lines than APT lines: AzureLinux.
C6_Witness_FedoraWithRpm ==
    /\ Returned
    /\ KeyID \in DOMAIN osReleaseData
    /\ osReleaseData[KeyID] \notin KnownIds
    /\ rpmPackageCount > ubuntuPackageCount
    /\ retResult[1].OSRelease[1].Distro = DistroAzureLinux

\* C7 as stated: the counters are compared only when the os-release map is
\* empty, and then decide the distro; with a non-empty map the distro is the
\* one the ID maps to.
C7_CountersOnlyForEmptyMap ==
    Returned =>
        detectedDistro =
            IF DOMAIN osReleaseData = {} THEN CounterVote
            ELSE detectDistroFromID(MapGet(osReleaseData, KeyID))

\* C7 as amended: the counters are compared whenever the os-release data names
\* no distro, that is when the map is empty and also when it holds no ID or an
\* ID that is not recognised; then more RPM lines give AzureLinux, more APT
\* lines Ubuntu/Debian and equal counters Unknown.
C7_CountersWhenIdGivesNoDistro ==
    Returned =>
        /\ (\/ DOMAIN osReleaseData = {}
            \/ MapGet(osReleaseData, KeyID) \notin KnownIds) =>
               detectedDistro = CounterVote
        /\ (DOMAIN osReleaseData # {} /\ MapGet(osReleaseData, KeyID) \in KnownIds) =>
               detectedDistro = detectDistroFromID(osReleaseData[KeyID])

\* C7 witness: no os-release data, packages of both formats in equal number,
\* and the detector is left at Unknown.
C7_Witness_EmptyMapTie ==
    /\ Returned
    /\ DOMAIN osReleaseData = {}
    /\ ubuntuPackageCount = 1
    /\ rpmPackageCount = 1
    /\ detectedDistro = DistroUnknown

\* C8: ID ubuntu or debian gives Ubuntu/Debian, azurelinux gives AzureLinux
\* and mariner gives Mariner, whatever the counters are.
C8_RecognisedIdDecides ==
    (Returned /\ KeyID \in DOMAIN osReleaseData) =>
        /\ osReleaseData[KeyID] \in {IdUbuntu, IdDebian} =>
               retResult[1].OSRelease[1].Distro = DistroUbuntu
        /\ osReleaseData[KeyID] = IdAzureLinux =>
               retResult[1].OSRelease[1].Distro = DistroAzureLinux
        /\ osReleaseData[KeyID] = IdMariner =>
               retResult[1].OSRelease[1].Distro = DistroMariner

\* C8 witness: ID=azurelinux with more APT lines than RPM lines.
C8_Witness_AzureLinuxOutvoted ==
    /\ Returned
    /\ MapGet(osReleaseData, KeyID) = IdAzureLinux
    /\ ubuntuPackageCount > rpmPackageCount
    /\ retResult[1].OSRelease[1].Distro = DistroAzureLinux

\* C9: the distro of the result is Mariner only if the ID recorded last is
\* "mariner"; the counters alone never give Mariner.
C9_MarinerOnlyFromId ==
    Returned =>
        /\ (retResult[1].OSRelease # << >>
               /\ retResult[1].OSRelease[1].Distro = DistroMariner) =>
               MapGet(osReleaseData, KeyID) = IdMariner
        /\ detectedDistro = DistroMariner => MapGet(osReleaseData, KeyID) = IdMariner
        /\ DOMAIN osReleaseData = {} => detectedDistro # DistroMariner

\* C9 witness: a result whose distro is Mariner, with an RPM package counted.
C9_Witness_Mariner ==
    /\ Returned
    /\ retResult[1].OSRelease # << >>
    /\ retResult[1].OSRelease[1].Distro = DistroMariner
    /\ rpmPackageCount > 0

\* C10: isPackageFixed returns false when fixedVersion is the empty string,
\* for every installed version and every distro.
C10_EmptyFixedVersionIsNotFixed ==
    (verdict # << >> /\ fixedVersion = << >>) => verdict[1] = FALSE

\* C10 witness: an RPM version evaluated against the empty fixed version under
\* AzureLinux, where the RPM ordering alone would put installed >= fixed.
C10_Witness_RpmAgainstEmpty ==
    /\ verdict = <<FALSE>>
    /\ fixedVersion = << >>
    /\ pkgVersion = VerRpm4
    /\ distro = DistroAzureLinux
    /\ rpmCompare(rpmNewVersion(pkgVersion), rpmNewVersion(fixedVersion)) >= 0

\* The distros for which isPackageFixed compares versions.
SupportedDistros == {DistroUbuntu, DistroAzureLinux, DistroMariner}

\* debversion.NewVersion returns an error for the string.
DebUnparsable(ver) == debNewVersion(ver) = << >>

\* C11: isPackageFixed returns false for every pair of version strings when
\* the distro is Unknown or any other value outside Ubuntu/Debian, AzureLinux
\* and Mariner.
C11_UnsupportedDistroIsNotFixed ==
    (verdict # << >> /\ distro \notin SupportedDistros) => verdict[1] = FALSE

\* C11 witness: under a distro value outside the four constants, an installed
\* RPM version newer than the fixed one is judged not fixed.
C11_Witness_NewerUnderUnsupported ==
    /\ verdict = <<FALSE>>
    /\ distro \notin OSDistros
    /\ pkgVersion = VerRpm5
    /\ fixedVersion = VerRpm4
    /\ rpmCompare(rpmNewVersion(pkgVersion), rpmNewVersion(fixedVersion)) > 0

\* C12: under Ubuntu/Debian with a non-empty fixedVersion the verdict is true
\* exactly when both strings parse as Debian versions and the installed one
\* is greater than or equal to the fixed one in the Debian ordering; equal
\* versions are fixed and an unparsable string on either side gives false.
C12_DebianVerdictIsParseAndCompare ==
    (verdict # << >> /\ distro = DistroUbuntu /\ fixedVersion # << >>) =>
        /\ verdict[1] <=>
              /\ ~DebUnparsable(pkgVersion)
              /\ ~DebUnparsable(fixedVersion)
              /\ debCompare(debNewVersion(pkgVersion)[1],
                            debNewVersion(fixedVersion)[1]) >= 0
        /\ (pkgVersion = fixedVersion /\ ~DebUnparsable(pkgVersion)) => verdict[1]
        /\ (DebUnparsable(pkgVersion) \/ DebUnparsable(fixedVersion)) => ~verdict[1]

\* C12 witness: the installed Debian version equals the fixed one and is
\* judged fixed.
C12_Witness_EqualDebianVersions ==
    /\ verdict = <<TRUE>>
    /\ distro = DistroUbuntu
    /\ pkgVersion = VerDeb1
    /\ fixedVersion = VerDeb1

\* The other of the two RPM distros.
OtherRpmDistro(d) == IF d = DistroAzureLinux THEN DistroMariner ELSE DistroAzureLinux

\* C13: under AzureLinux or Mariner with a non-empty fixedVersion the verdict
\* is true exactly when the installed version is greater than or equal to the
\* fixed one in the RPM ordering (equal counts as fixed), and the other RPM
\* distro gives the same verdict for the same pair.
C13_RpmVerdictIsCompare ==
    (verdict # << >> /\ distro \in {DistroAzureLinux, DistroMariner}
        /\ fixedVersion # << >>) =>
        /\ verdict[1] <=>
              rpmCompare(rpmNewVersion(pkgVersion), rpmNewVersion(fixedVersion)) >= 0
        /\ pkgVersion = fixedVersion => verdict[1]
        /\ verdict[1] <=> isPackageFixed(pkgVersion, fixedVersion, OtherRpmDistro(distro))

\* C13 witness: under Mariner the installed RPM version equals the fixed one
\* and is judged fixed.
C13_Witness_EqualUnderMariner ==
    /\ verdict = <<TRUE>>
    /\ distro = DistroMariner
    /\ pkgVersion = VerRpm4
    /\ fixedVersion = VerRpm4

\* C14 as stated: a version string that cannot be parsed, on either side,
\* gives "not fixed" under Ubuntu/Debian, AzureLinux and Mariner alike.
C14_UnparsableIsNotFixedEverywhere ==
    (verdict # << >> /\ distro \in SupportedDistros
        /\ (DebUnparsable(pkgVersion) \/ DebUnparsable(fixedVersion))) =>
        verdict[1] = FALSE

\* C14: under Ubuntu/Debian a string debversion.NewVersion rejects, on either
\* side, gives "not fixed"; under AzureLinux and Mariner no string is rejected
\* (rpmversion.NewVersion returns no error) and the verdict is the one of the
\* RPM ordering; every evaluation ends in a boolean verdict, never an error.
C14_UnparsableIsNotFixedUnderDebian ==
    verdict # << >> =>
        /\ verdict[1] \in BOOLEAN
        /\ (distro = DistroUbuntu
               /\ (DebUnparsable(pkgVersion) \/ DebUnparsable(fixedVersion))) =>
               verdict[1] = FALSE
        /\ (distro \in {DistroAzureLinux, DistroMariner} /\ fixedVersion # << >>
               /\ (DebUnparsable(pkgVersion) \/ DebUnparsable(fixedVersion))) =>
               (verdict[1] <=>
                   rpmCompare(rpmNewVersion(pkgVersion), rpmNewVersion(fixedVersion)) >= 0)

\* C14 witness: under Ubuntu/Debian a parsable installed version against a
\* fixed version that does not parse is judged not fixed.
C14_Witness_BadFixedUnderDebian ==
    /\ verdict = <<FALSE>>
    /\ distro = DistroUbuntu
    /\ pkgVersion = VerDeb1
    /\ ~DebUnparsable(pkgVersion)
    /\ fixedVersion = VerInvalid
    /\ DebUnparsable(fixedVersion)

\* The call returned after a source answered without an error.
LookupSucceeded == checkPc = "done" /\ lookup # << >> /\ lookup[1].err = ErrNil

\* The call returned after a source answered with an error.
LookupFailed == checkPc = "done" /\ lookup # << >> /\ lookup[1].err # ErrNil

\* C15: for a supported distro and a successful lookup the returned sequence
\* is the order-preserving subsequence of the looked-up advisories for which
\* isPackageFixed(pkg.Version, advisory.FixedVersion, distro) is false; every
\* advisory with an empty FixedVersion is in it and no advisory judged fixed.
C15_ActiveVulnsAreTheUnfixedSubsequence ==
    LookupSucceeded =>
        LET allVulns == lookup[1].allVulns
            Fixed(v) == isPackageFixed(pkgArg[1].Version, v.FixedVersion, osRelease[1].Distro)
            Unfixed(v) == ~Fixed(v)
            NoFix(v) == v.FixedVersion = << >>
        IN  /\ checkErr = ErrNil
            /\ activeVulns = SelectSeq(allVulns, Unfixed)
            /\ SelectSeq(activeVulns, NoFix) = SelectSeq(allVulns, NoFix)
            /\ \A i \in DOMAIN activeVulns : ~Fixed(activeVulns[i])

\* C15 witness: under AzureLinux with 1.2.3-4.azl3 installed, the source
\* returns a newer fix, an older fix and an advisory without a fix; the older
\* fix is dropped and the other two are returned in their order.
C15_Witness_OlderFixDropped ==
    /\ LookupSucceeded
    /\ osRelease[1].Distro = DistroAzureLinux
    /\ pkgArg[1].Version = VerRpm4
    /\ lookup[1].allVulns =
           <<Advisory("CVE-2023-1234", VerRpm5), Advisory("CVE-2023-5678", VerRpm3),
             Advisory("CVE-2023-9999", VerEmpty)>>
    /\ activeVulns =
           <<Advisory("CVE-2023-1234", VerRpm5), Advisory("CVE-2023-9999", VerEmpty)>>

\* C16: with a nil OS release or a release whose distro is Unknown the call
\* returns an error and no advisories, and no source was asked; it never
\* returns an empty success.
C16_NoReleaseOrUnknownDistroIsAnError ==
    (checkPc = "done" /\ (osRelease = << >> \/ osRelease[1].Distro = DistroUnknown)) =>
        /\ checkErr # ErrNil
        /\ checkErr = IF osRelease = << >>
                      THEN "OS release information required for vulnerability checking"
                      ELSE "unsupported distribution: Unknown"
        /\ activeVulns = << >>
        /\ queries = << >>
        /\ lookup = << >>
        /\ evaluated = << >>

\* C16 witness: a call with a release whose distro is Unknown returned the
\* unsupported-distribution error.
C16_Witness_UnknownDistro ==
    /\ checkPc = "done"
    /\ osRelease # << >>
    /\ osRelease[1].Distro = DistroUnknown
    /\ osRelease[1].VersionID = VersionId2404
    /\ checkErr = "unsupported distribution: Unknown"

\* C17: when the lookup fails the call returns the source's error unchanged
\* and no advisories, and isPackageFixed is not evaluated; the one query made
\* goes to the Ubuntu source for Ubuntu/Debian, the Azure source for
\* AzureLinux and the Mariner source for Mariner, with the release's
\* VERSION_ID and the package name as key.
C17_LookupErrorIsReturnedUnchanged ==
    /\ LookupFailed =>
          /\ checkErr = lookup[1].err
          /\ activeVulns = << >>
          /\ evaluated = << >>
    /\ (checkPc = "done" /\ osRelease # << >> /\ osRelease[1].Distro \in SupportedDistros) =>
          /\ lookup # << >>
          /\ Len(queries) = 1
          /\ queries[1].source =
                 CASE osRelease[1].Distro = DistroUbuntu -> "ubuntu"
                   [] osRelease[1].Distro = DistroAzureLinux -> "azure.Azure"
                   [] osRelease[1].Distro = DistroMariner -> "azure.Mariner"
          /\ queries[1].osVer = osRelease[1].VersionID
          /\ queries[1].pkgName = pkgArg[1].Name

\* C17 witness: under Mariner the Mariner source answered with an error next
\* to a non-empty slice; the error came back and nothing else.
C17_Witness_MarinerLookupFails ==
    /\ LookupFailed
    /\ osRelease[1].Distro = DistroMariner
    /\ lookup[1].allVulns # << >>
    /\ queries = <<Query("azure.Mariner", VersionId30, NameCurl)>>
    /\ checkErr = "bucket not found"
    /\ activeVulns = << >>

\* The recorded line was read in the packages section and matches the APT or
\* the RPM grammar.
ScannedPackageLine(h) ==
    /\ h.inPackageSection
    /\ \/ ubuntuRegexFind(TrimSpace(h.line)) # << >>
       \/ rpmRegexFind(TrimSpace(h.line)) # << >>

\* The recorded line was read in the container section and is an image entry.
ScannedImageLine(h) ==
    /\ h.inContainerImagesSection
    /\ parseContainerImageLine(h.line) # << >>

\* The classifier results of the recorded package lines, in the order read.
ExpectedPackages ==
    LET sel == SelectSeq(scanned, ScannedPackageLine)
    IN  [i \in 1..Len(sel) |-> parsePackageLine(TrimSpace(sel[i].line))[1]]

\* The classifier results of the recorded image lines, in the order read.
ExpectedImages ==
    LET sel == SelectSeq(scanned, ScannedImageLine)
    IN  [i \in 1..Len(sel) |-> parseContainerImageLine(sel[i].line)[1]]

\* C18: the package sequence Parse returns is, in input order, the classifier
\* results of exactly the lines read while in the packages section that match
\* the APT or the RPM grammar, duplicates and lines of several sections
\* included; the image sequence is likewise the results of the image lines
\* read in the container section, in input order.
C18_SequencesFollowInputOrder ==
    /\ pc = "scanning" =>
          /\ result.Packages = ExpectedPackages
          /\ result.ContainerImages = ExpectedImages
    /\ Returned =>
          /\ retResult[1].Packages = ExpectedPackages
          /\ retResult[1].ContainerImages = ExpectedImages

\* C18 witness: two package sections, the second repeating the APT line of
\* the first, give the package twice.
C18_Witness_TwoSectionsWithDuplicate ==
    /\ Returned
    /\ Len(scanned) = 5
    /\ scanned[1].line = MarkerPackagesBegin
    /\ scanned[2].line = LineApt
    /\ scanned[3].line = MarkerPackagesEnd
    /\ scanned[4].line = MarkerPackagesBegin
    /\ scanned[5].line = LineApt
    /\ retResult[1].Packages = <<parsePackageLine(LineApt)[1], parsePackageLine(LineApt)[1]>>

\* C19: the no-content outcome and a read failure are told apart in every
\* case: no-content is the sentinel ErrNoPackageSection, returned with an
\* empty result after a stream that ended without a read error, while a read
\* failure returns no result and an error that wraps the read error and is
\* not the sentinel, also when nothing had been extracted before it.
C19_NoContentAndReadFailureDiffer ==
    pc = "done" =>
        /\ scanErr # ErrNil =>
              /\ retErr = "error reading content: " \o scanErr
              /\ retErr # ErrNoPackageSection
              /\ retResult = << >>
        /\ retErr = ErrNoPackageSection <=>
              /\ scanErr = ErrNil
              /\ retResult # << >>
              /\ retResult[1] = EmptyResult

\* C19 witness: the stream fails inside a packages section in which no line
\* matched, so nothing had been extracted; the error is the wrapped read
\* error.
C19_Witness_FailureWithNothingExtracted ==
    /\ pc = "done"
    /\ scanErr = "unexpected EOF"
    /\ retErr = "error reading content: unexpected EOF"
    /\ linesRead > 0
    /\ result = EmptyResult
    /\ DOMAIN osReleaseData = {}

\* The positions in namePart of a hyphen that a digit follows.
HyphenDigit(namePart) ==
    {i \in 1..(Len(namePart) - 1) : namePart[i] = "-" /\ IsDigit(namePart[i + 1])}

\* The package of the RPM line with components c when namePart is split at
\* the last of the positions cuts, or not split when there is none.
RpmPackageSplitAt(c, cuts) ==
    LET releaseVersion == c.release \o <<".">> \o c.dist
    IN  IF cuts # {}
        THEN OSPackage(SubSeq(c.namePart, 1, Max(cuts) - 1),
                       SubSeq(c.namePart, Max(cuts) + 1, Len(c.namePart))
                           \o <<"-">> \o releaseVersion)
        ELSE OSPackage(c.namePart, releaseVersion)

\* C20 as stated: for every line <namepart>-<release>.<dist>.<arch> the
\* result is namepart split at its last hyphen that a digit follows, with
\* "-" and the release version appended to the upstream version, and
\* (namepart, release version) when no hyphen is followed by a digit.
C20_SplitAtLastHyphenDigit ==
    parsed # << >> =>
        \A c \in RpmComponents :
            pkgLine = RpmLine(c) =>
                parsed[1] = <<RpmPackageSplitAt(c, HyphenDigit(c.namePart))>>

\* C20: as above, where the hyphen of the split is the last one that is not
\* the first character of namepart and that a digit follows; a namepart with
\* no such hyphen is the name and the release version is the version.
C20_SplitAtLastInnerHyphenDigit ==
    parsed # << >> =>
        \A c \in RpmComponents :
            pkgLine = RpmLine(c) =>
                parsed[1] = <<RpmPackageSplitAt(c, HyphenDigit(c.namePart) \ {1})>>

\* C20 witness: the line of the example is split into python3-cryptography
\* and 42.0.5-3.azl3.
C20_Witness_Cryptography ==
    /\ pkgLine = NamePartCryptography \o <<"-", "3", ".">> \o DistAzl3 \o <<".">>
                     \o ArchX86_64
    /\ ubuntuRegexFind(pkgLine) = << >>
    /\ parsed = <<<<OSPackage(NameCryptography, VersionCryptography)>>>>

\* C21: the APT grammar is tried before the RPM grammar and the first match
\* wins: a line <name>/<source>,now <version> <arch> [<status>] gives
\* (name, version), the text before the first "/" and the token after
\* ",now", also when the line matches the RPM form; a line that matches
\* neither grammar, the empty line and a line of white space among them,
\* gives no package.
C21_AptBeforeRpm ==
    parsed # << >> =>
        /\ \A c \in AptComponents :
               pkgLine = AptLine(c) => parsed[1] = <<OSPackage(c.name, c.version)>>
        /\ (ubuntuRegexFind(pkgLine) = << >> /\ rpmRegexFind(pkgLine) = << >>) =>
               parsed[1] = << >>
        /\ pkgLine \in {<< >>, <<" ", " ", "\t">>, LineNarrative} => parsed[1] = << >>

\* C21 witness: a line that matches both grammars is classified by the APT
\* one.
C21_Witness_LineOfBothForms ==
    /\ parsed # << >>
    /\ \E c \in AptComponents : pkgLine = AptLine(c) /\ c.tail # << >>
    /\ ubuntuRegexFind(pkgLine) # << >>
    /\ rpmRegexFind(pkgLine) # << >>
    /\ parsed[1] # << >>
    /\ parsed[1][1].Name = ubuntuRegexFind(pkgLine)[2]
    /\ parsed[1][1].Version = ubuntuRegexFind(pkgLine)[3]

(***************************************************************************)
(* One call of Parse on a whole input (parser.go, Parse).                  *)
(***************************************************************************)

\* "bind9-dnsutils/noble-updates,noble-security,now 1:9.18.30-0ubuntu0.24.04.2 amd64 [installed]-1.azl3.x86_64"
LineAptBothForms ==
    <<"b","i","n","d","9","-","d","n","s","u","t","i","l","s","/","n","o","b","l","e","-",
      "u","p","d","a","t","e","s",",","n","o","b","l","e","-","s","e","c","u","r","i","t",
      "y",",","n","o","w"," ","1",":","9",".","1","8",".","3","0","-","0","u","b","u","n",
      "t","u","0",".","2","4",".","0","4",".","2"," ","a","m","d","6","4"," ","[","i","n",
      "s","t","a","l","l","e","d","]","-","1",".","a","z","l","3",".","x","8","6","_","6",
      "4">>

\* "\tapparmor/noble-updates,now 4.0.1really4.0.1-0ubuntu0.24.04.4 amd64 [installed,automatic]  "
LinePaddedApt ==
    <<"\t","a","p","p","a","r","m","o","r","/","n","o","b","l","e","-","u","p","d","a","t",
      "e","s",",","n","o","w"," ","4",".","0",".","1","r","e","a","l","l","y","4",".","0",
      ".","1","-","0","u","b","u","n","t","u","0",".","2","4",".","0","4",".","4"," ","a",
      "m","d","6","4"," ","[","i","n","s","t","a","l","l","e","d",",","a","u","t","o","m",
      "a","t","i","c","]"," "," ">>

\* The longest body of a packages section made of APT and blank lines.
MaxSectionLines == 3

\* The sequences over S of length at most n.
SeqsUpTo(S, n) == UNION {[1..k -> S] : k \in 0..n}

\* The lines of such a body: three lines of the APT form (a plain one, one
\* that has the RPM form too, one with white space around it), the empty
\* line and a line of white space.
AptSectionLines == {LineApt, LineAptBothForms, LinePaddedApt, << >>, <<" ", "\t">>}

AptBodies == SeqsUpTo(AptSectionLines, MaxSectionLines)

\* A section of each kind around the lines of body; the container images
\* section has no closing marker.
PackagesSection(body) == <<MarkerPackagesBegin>> \o body \o <<MarkerPackagesEnd>>

OSReleaseSection(body) == <<MarkerOSReleaseBegin>> \o body \o <<MarkerOSReleaseEnd>>

ImagesSection(body) == <<MarkerContainerImages>> \o body

\* Bodies of the three kinds of section: package lines of both grammars,
\* with a blank line and "Listing..."; os-release lines of a recognised
\* distribution, of no ID, and none; image lines, one body ended by a line
\* of narrative before its last entry, and none.
PackageBodies ==
    {<<LineApt>>, <<LineRpm, << >>, LineApt, LineRpm>>, <<Listing, LineRpm>>}

OSReleaseBodies == {<< >>, <<LineName>>, <<LineIdUbuntu, LineName>>}

ImageBodies == {<< >>, <<LineImage, << >>, LineImage>>, <<LineImage, LineNarrative, LineImage>>}

\* The orders of three sections.
Orders == {o \in [1..3 -> 1..3] : \A i, j \in 1..3 : o[i] = o[j] => i = j}

\* The three sections in the order o.
InOrder(secs, o) == secs[o[1]] \o secs[o[2]] \o secs[o[3]]

\* A packages, an os-release and an images section, in that order.
SectionTriples ==
    {<<PackagesSection(p), OSReleaseSection(r), ImagesSection(i)>> :
        p \in PackageBodies, r \in OSReleaseBodies, i \in ImageBodies}

StreamInputs ==
    {PackagesSection(body) : body \in AptBodies}
        \cup {InOrder(secs, o) : secs \in SectionTriples, o \in Orders}

InitStreamInputs ==
    /\ InitCore /\ InitClass /\ InitLog /\ InitCalls /\ InitFile /\ InitMain
    /\ stream \in StreamInputs
    /\ streamOut = << >>

\* Parse(reader) on a reader that delivers the lines of stream and then
\* ends, or fails with a read error.
ParseStream ==
    /\ streamOut = << >>
    /\ \E err \in {ErrNil} \cup ReadErrors :
           streamOut' = <<ParseReader(stream, err)>>
    /\ UNCHANGED stream
    /\ UNCHANGED <<parseVars, evalVars, checkVars, histVars, lineVars>>
    /\ UNCHANGED <<classVars, logVars, callVars, fileVars, mainVars>>

NextStream == ParseStream

SpecStream == InitStreamInputs /\ [][NextStream]_vars

\* The lines of body that are not blank.
NonBlank(body) == SelectSeq(body, LAMBDA l : TrimSpace(l) # << >>)

\* The captures of the APT grammar for the lines of body that are not blank.
AptCaptures(body) ==
    [i \in 1..Len(NonBlank(body)) |->
        LET m == ubuntuRegexFind(TrimSpace(NonBlank(body)[i]))
        IN  OSPackage(m[2], m[3])]

\* C22: when the packages section holds only APT lines and blank lines, Parse
\* extracts as many packages as the section has non-blank lines, and the
\* i-th package is the name and version the APT grammar captures from the
\* i-th non-blank line.
C22_AptSectionYieldsItsLines ==
    \A body \in AptBodies :
        (stream = PackagesSection(body) /\ streamOut # << >> /\ streamOut[1].ret # << >>) =>
            /\ Len(streamOut[1].ret[1].Packages) = Len(NonBlank(body))
            /\ streamOut[1].ret[1].Packages = AptCaptures(body)

\* C22 witness: a section of a padded APT line, a blank line and an APT line
\* that has the RPM form too was parsed, and two packages came out.
C22_Witness_PaddedBlankBothForms ==
    /\ stream = PackagesSection(<<LinePaddedApt, <<" ", "\t">>, LineAptBothForms>>)
    /\ streamOut # << >>
    /\ streamOut[1].ret # << >>
    /\ Len(streamOut[1].ret[1].Packages) = 2

\* C26: for an input made of a packages section, an os-release section and
\* a container images section, Parse returns the same result and error in
\* every order of the three sections.
C26_SectionOrderDoesNotMatter ==
    \A secs \in SectionTriples : \A o \in Orders :
        (stream = InOrder(secs, o) /\ streamOut # << >> /\ streamOut[1].ret # << >>) =>
            streamOut[1] = ParseReader(InOrder(secs, <<1, 2, 3>>), ErrNil)

\* C26 witness: the images section came first and the packages section
\* last, and Parse returned two images and three packages.
C26_Witness_ImagesFirstPackagesLast ==
    /\ \E secs \in SectionTriples : stream = InOrder(secs, <<3, 2, 1>>)
    /\ streamOut # << >>
    /\ streamOut[1].ret # << >>
    /\ Len(streamOut[1].ret[1].ContainerImages) = 2
    /\ Len(streamOut[1].ret[1].Packages) = 3
    /\ streamOut[1].ret[1].OSRelease # << >>

(***************************************************************************)
(* One call of parseOSReleaseLine (parser.go).                             *)
(***************************************************************************)

\* The parts of an os-release line: the key (the five stored ones, one that
\* is not stored, one in lower case, and none), the white space put around
\* the key and around the value, the value, and the double quotes put
\* around the value.
OSLineComponents ==
    [key : OSReleaseKeys \cup
        {
         \* "HOME_URL"
         <<"H","O","M","E","_","U","R","L">>,
         \* "name"
         <<"n","a","m","e">>,
         \* ""
         << >>},
     gap : {<< >>, <<" ">>},
     value :
        {
         \* "ubuntu"
         <<"u","b","u","n","t","u">>,
         \* "Microsoft Azure Linux 3.0"
         <<"M","i","c","r","o","s","o","f","t"," ","A","z","u","r","e"," ","L","i","n","u","x",
      " ","3",".","0">>,
         \* "a=b"
         <<"a","=","b">>,
         \* ""
         << >>},
     quotes : {"none", "both", "open", "close", "double"}]

Quote == <<"\"">>

\* The value of c as written on the line.
Written(c) ==
    CASE c.quotes = "none"   -> c.value
      [] c.quotes = "both"   -> Quote \o c.value \o Quote
      [] c.quotes = "open"   -> Quote \o c.value
      [] c.quotes = "close"  -> c.value \o Quote
      [] c.quotes = "double" -> Quote \o Quote \o c.value \o Quote \o Quote

\* The line made of the parts c.
OSLine(c) == c.gap \o c.key \o c.gap \o <<"=">> \o c.gap \o Written(c) \o c.gap

\* The argument lines: the lines made of parts, and three lines without "=".
OSReleaseLines ==
    {OSLine(c) : c \in OSLineComponents} \cup {<< >>, LineNarrative, KeyID}

\* The maps the call starts from: the empty one, and one that holds ID and
\* NAME already.
OSReleaseMaps == {EmptyMap, MapSet(MapSet(EmptyMap, KeyID, IdDebian), KeyNAME, IdDebian)}

InitOSLineInputs ==
    /\ InitCore /\ InitLog /\ InitCalls /\ InitStream /\ InitFile /\ InitMain
    /\ osLine = << >>
    /\ osData \in OSReleaseMaps
    /\ imgLine = << >>
    /\ imgOut = << >>

\* parseOSReleaseLine(l, osData) for a line l; osLine is << >> before the
\* call and <<l>> after it.
ParseOSReleaseLine ==
    /\ osLine = << >>
    /\ \E l \in OSReleaseLines :
           /\ osLine' = <<l>>
           /\ osData' = parseOSReleaseLine(l, osData)
    /\ UNCHANGED <<imgLine, imgOut>>
    /\ UNCHANGED <<parseVars, evalVars, checkVars, histVars, lineVars>>
    /\ UNCHANGED <<logVars, callVars, streamVars, fileVars, mainVars>>

NextOSLine == ParseOSReleaseLine

SpecOSLine == InitOSLineInputs /\ [][NextOSLine]_vars

\* The value the parts c stand for once one pair of surrounding quotes is
\* removed.
Unquoted(c) ==
    CASE c.quotes = "none"   -> c.value
      [] c.quotes = "both"   -> c.value
      [] c.quotes = "open"   -> Quote \o c.value
      [] c.quotes = "close"  -> c.value \o Quote
      [] c.quotes = "double" -> Quote \o c.value \o Quote

\* The map d with only the key k changed, to v.
WithOnly(d, k, v) ==
    [x \in (DOMAIN d) \cup {k} |-> IF x = k THEN v ELSE d[x]]

\* C23: a call on a line made of a key, "=" and a value stores the trimmed
\* key with the trimmed value, one pair of surrounding double quotes
\* removed, when the key is one of the five, and changes nothing else; a call
\* on a line of any other key or without "=" leaves the map as it was.
C23_KeyValueSplitAtFirstEquals ==
    [][/\ \A c \in OSLineComponents :
              osLine' = <<OSLine(c)>> =>
                  osData' = IF c.key \in {KeyNAME, KeyVERSION_ID, KeyVERSION, KeyPRETTY_NAME, KeyID}
                            THEN WithOnly(osData, c.key, Unquoted(c))
                            ELSE osData
       /\ osLine' \in {<<(<< >>)>>, <<LineNarrative>>, <<KeyID>>} => osData' = osData]_vars

\* C23 witness: the line  ID = "a=b"  was parsed into a map that held ID
\* already, and the map now holds a=b for ID.
C23_Witness_QuotedValueWithEquals ==
    /\ DOMAIN osData = {KeyID, KeyNAME}
    /\ osData[KeyNAME] = IdDebian
    /\ \E c \in OSLineComponents :
           /\ c.key = KeyID /\ c.gap = <<" ">> /\ c.quotes = "both"
           /\ Index(c.value, <<"=">>) > 0
           /\ osLine = <<OSLine(c)>>
           /\ osData[KeyID] = c.value

(***************************************************************************)
(* One call of parseContainerImageLine (parser.go).                        *)
(***************************************************************************)

\* The parts of a line of the images section: how it starts (the prefix,
\* the prefix with one space less or more or a tab before the hyphen, the
\* hyphen alone, another mark, or nothing), the white space before and
\* after the reference, and the reference (with a tag, without one, with a
\* space inside, and none).
ImageLineComponents ==
    [lead : {ImagePrefix, <<" ", "-", " ">>, <<" ", " ", " ", "-", " ">>, <<"\t", "-", " ">>,
             <<"-", " ">>, <<" ", " ", "*", " ">>, << >>},
     before : {<< >>, <<" ", " ">>},
     ref :
        {
         \* "mcr.microsoft.com/oss/kubernetes/pause:3.6"
         <<"m","c","r",".","m","i","c","r","o","s","o","f","t",".","c","o","m","/","o","s","s",
      "/","k","u","b","e","r","n","e","t","e","s","/","p","a","u","s","e",":","3",".","6">>,
         \* "mcr.microsoft.com/oss/kubernetes/pause"
         <<"m","c","r",".","m","i","c","r","o","s","o","f","t",".","c","o","m","/","o","s","s",
      "/","k","u","b","e","r","n","e","t","e","s","/","p","a","u","s","e">>,
         \* "pause 3.6"
         <<"p","a","u","s","e"," ","3",".","6">>,
         \* ""
         << >>},
     after : {<< >>, <<" ", "\t">>}]

\* The line made of the parts c.
ImageLine(c) == c.lead \o c.before \o c.ref \o c.after

ImageLines == {ImageLine(c) : c \in ImageLineComponents}

\* parseContainerImageLine(l) for a line l.
ParseContainerImageLine ==
    /\ imgOut = << >>
    /\ \E l \in ImageLines :
           /\ imgLine' = l
           /\ imgOut' = <<parseContainerImageLine(l)>>
    /\ UNCHANGED <<osLine, osData>>
    /\ UNCHANGED <<parseVars, evalVars, checkVars, histVars, lineVars>>
    /\ UNCHANGED <<logVars, callVars, streamVars, fileVars, mainVars>>

NextImageLine == ParseContainerImageLine

SpecImageLine == Init /\ [][NextImageLine]_vars

\* C24: a call returns an image exactly when the line starts with "  - "
\* as it stands and something other than white space follows; the name is
\* what follows, trimmed.  The empty line, the prefix alone and every line
\* that starts otherwise return nothing.
C24_ImageOnlyAfterExactPrefix ==
    imgOut # << >> =>
        /\ \A c \in ImageLineComponents :
               imgLine = ImageLine(c) =>
                   imgOut[1] = IF c.lead = ImagePrefix /\ c.ref # << >>
                               THEN <<ContainerImage(c.ref)>>
                               ELSE << >>
        /\ imgLine \in {<< >>, LinePrefixOnly} => imgOut[1] = << >>

\* C24 witness: a line of the prefix, two more spaces, a reference without a
\* tag and trailing white space was parsed into the reference.
C24_Witness_PaddedReference ==
    /\ imgOut # << >>
    /\ \E c \in ImageLineComponents :
           /\ c.lead = ImagePrefix /\ c.before # << >> /\ c.after # << >>
           /\ Index(c.ref, <<":">>) = -1 /\ c.ref # << >>
           /\ imgLine = ImageLine(c)
           /\ imgOut[1] = <<ContainerImage(c.ref)>>

(***************************************************************************)
(* Parse with a record of its input, over package lines of every kind.     *)
(***************************************************************************)

\* The two package markers, a line of the APT form, one of both forms, one
\* of the RPM form and a line of neither.
CountLines ==
    {MarkerPackagesBegin, MarkerPackagesEnd, LineApt, LineAptBothForms, LineRpm,
     LineNarrative}

NextCount ==
    \/ ParseNilReader
    \/ ParseBegin
    \/ \E l \in CountLines :
           /\ ScanLine(l)
           /\ scanned' = Append(scanned,
                                Scanned(l, inPackageSection, inContainerImagesSection))
    \/ ScanFail
    \/ ScanEnd

SpecCount == Init /\ [][NextCount]_vars

\* The recorded line was read in the packages section and parsePackageLine
\* takes its APT branch on it.
AptClassified(h) ==
    /\ h.inPackageSection
    /\ ubuntuRegexFind(TrimSpace(h.line)) # << >>

\* The recorded line was read in the packages section and parsePackageLine
\* takes its RPM branch on it.
RpmClassified(h) ==
    /\ h.inPackageSection
    /\ ubuntuRegexFind(TrimSpace(h.line)) = << >>
    /\ rpmRegexFind(TrimSpace(h.line)) # << >>

\* C25: from the start of the scan on, the APT counter is the number of
\* lines recorded through the APT grammar, the RPM counter the number
\* recorded through the RPM grammar, and the two add up to the length of the
\* package list.
C25_CountersFollowClassification ==
    pc # "idle" =>
        /\ ubuntuPackageCount = Len(SelectSeq(scanned, AptClassified))
        /\ rpmPackageCount = Len(SelectSeq(scanned, RpmClassified))
        /\ ubuntuPackageCount + rpmPackageCount = Len(result.Packages)

\* C25 witness: in the middle of a scan a line of both forms and an RPM line
\* have been recorded, and each counter stands at one.
C25_Witness_BothFormsThenRpm ==
    /\ pc = "scanning"
    /\ Len(scanned) = 3
    /\ scanned[2].line = LineAptBothForms
    /\ scanned[3].line = LineRpm
    /\ ubuntuPackageCount = 1
    /\ rpmPackageCount = 1
    /\ Len(result.Packages) = 2

(***************************************************************************)
(* Successive evaluations of isPackageFixed (main.go).  The function reads *)
(* its three arguments and no variable of the package.                     *)
(***************************************************************************)

\* The number of successive evaluations.
MaxEvals == 2

\* The argument triples: two Debian versions and a version the Debian parser
\* rejects, as installed and as fixed version, under a Debian distro, an RPM
\* distro and the unknown one.
LoggedTriples ==
    [pkgVersion : {VerDeb1, VerDeb2, VerInvalid},
     fixedVersion : {VerDeb1, VerDeb2, VerInvalid},
     distro : {DistroUbuntu, DistroAzureLinux, DistroUnknown}]

\* An evaluation and its verdict.
Logged(t, b) == [args |-> t, verdict |-> b]

\* isPackageFixed that answers true whenever its previous answer was true.
EvalStep_Sticky(log, t) ==
    Append(log,
           Logged(t, \/ isPackageFixed(t.pkgVersion, t.fixedVersion, t.distro)
                     \/ (log # << >> /\ log[Len(log)].verdict)))

\* The log after one more call, isPackageFixed(t.pkgVersion, t.fixedVersion,
\* t.distro), made after the calls of log.
EvalStep(log, t) ==
    Append(log, Logged(t, isPackageFixed(t.pkgVersion, t.fixedVersion, t.distro)))

\* One more evaluation, of any of the triples.
EvaluateNext ==
    /\ Len(evalLog) < MaxEvals
    /\ \E t \in LoggedTriples : evalLog' = EvalStep(evalLog, t)
    /\ UNCHANGED <<parseVars, evalVars, checkVars, histVars, lineVars>>
    /\ UNCHANGED <<classVars, callVars, streamVars, fileVars, mainVars>>

NextLog == EvaluateNext

SpecLog == Init /\ [][NextLog]_vars

MaxCallLines == 2

CallIds == {1, 2}

\* The lines of the inputs: the opening markers of the packages and the
\* os-release section, a package line and an os-release line.
CallLines == {MarkerPackagesBegin, LineApt, MarkerOSReleaseBegin, LineName}

CallInputs == SeqsUpTo(CallLines, MaxCallLines)

\* A call that has not read a line yet: its input, the number of lines
\* read, its locals, and out, << >> until the call returns.
NewCall(input) == [input |-> input, read |-> 0, st |-> ParseLocals, out |-> << >>]

\* An iteration of call c with the section flags kept in the Parser: every
\* call in progress sees the flags the iteration leaves.
StepCalls_SharedFlags(cs, c) ==
    LET st == ScanState(cs[c].st, cs[c].input[cs[c].read + 1])
    IN  [d \in DOMAIN cs |->
            IF d = c
            THEN [cs[c] EXCEPT !.st = st, !.read = cs[c].read + 1]
            ELSE [cs[d] EXCEPT !.st.inPackageSection = st.inPackageSection,
                               !.st.inOSReleaseSection = st.inOSReleaseSection,
                               !.st.inContainerImagesSection = st.inContainerImagesSection]]

\* The calls after call c ran one iteration of its loop on its next line.
StepCalls(cs, c) ==
    [cs EXCEPT ![c].st = ScanState(cs[c].st, cs[c].input[cs[c].read + 1]),
               ![c].read = cs[c].read + 1]

\* Two calls start on different inputs.
InitCallInputs ==
    /\ InitCore /\ InitClass /\ InitLog /\ InitStream /\ InitFile /\ InitMain
    /\ \E a, b \in CallInputs :
           /\ a # b
           /\ calls = <<NewCall(a), NewCall(b)>>

\* Call c reads its next line.
CallScan(c) ==
    /\ calls[c].read < Len(calls[c].input)
    /\ calls' = StepCalls(calls, c)
    /\ UNCHANGED <<parseVars, evalVars, checkVars, histVars, lineVars>>
    /\ UNCHANGED <<classVars, logVars, streamVars, fileVars, mainVars>>

\* Call c has read its input and returns.
CallReturn(c) ==
    /\ calls[c].read = Len(calls[c].input)
    /\ calls[c].out = << >>
    /\ calls' = [calls EXCEPT ![c].out = <<ParseReturn(calls[c].st, ErrNil)>>]
    /\ UNCHANGED <<parseVars, evalVars, checkVars, histVars, lineVars>>
    /\ UNCHANGED <<classVars, logVars, streamVars, fileVars, mainVars>>

NextCalls ==
    \/ \E c \in CallIds : CallScan(c)
    \/ \E c \in CallIds : CallReturn(c)

SpecCalls == InitCallInputs /\ [][NextCalls]_vars

\* C28: however the iterations of the two calls are interleaved, a call that
\* returned has returned what Parse returns for its input alone.
C28_ConcurrentCallsReturnAsAlone ==
    \A c \in DOMAIN calls :
        calls[c].out # << >> => calls[c].out[1] = ParseReader(calls[c].input, ErrNil)

\* C28 witness: one call has opened its packages section and not yet read its
\* package line; the other has read the same package line outside any section
\* and returned that nothing was found.
C28_Witness_OtherCallInSection ==
    /\ calls # << >>
    /\ calls[1].input = <<MarkerPackagesBegin, LineApt>>
    /\ calls[1].read = 1
    /\ calls[2].input = <<LineApt>>
    /\ calls[2].out # << >>
    /\ calls[2].out[1].err = ErrNoPackageSection

(***************************************************************************)
(* ParseFromFile (parser.go).  The file system is outside the program:     *)
(* stream is the content of the one regular file there is.                 *)
(***************************************************************************)

ErrEmptyFilename == "filename cannot be empty"

ErrOpenFile(name, err) == "failed to open file " \o name \o ": " \o err

NameSampleUbuntu == "./sample-ubuntu.txt"

NameDirectory == "."

\* The arguments: no name, the regular file, a directory and a path that
\* does not exist.
FileNames == {"", NameSampleUbuntu, NameDirectory, "/non/existent/file.txt"}

\* The contents of the regular file: nothing, a line of narrative, and the
\* inputs of three sections.
FileContents ==
    {<< >>, <<LineNarrative>>} \cup {InOrder(secs, <<1, 2, 3>>) : secs \in SectionTriples}

\* os.Open(name) when the regular file holds content: the error, and for an
\* opened file the lines it delivers and the error its reading ends with.  A
\* directory opens and fails at the first read.
Open(name, content) ==
    IF name = NameSampleUbuntu
    THEN [err |-> ErrNil, lines |-> content, readErr |-> ErrNil]
    ELSE IF name = NameDirectory
    THEN [err |-> ErrNil, lines |-> << >>, readErr |-> "read .: is a directory"]
    ELSE [err |-> "open " \o name \o ": no such file or directory",
          lines |-> << >>, readErr |-> ErrNil]

\* What one call does and returns: the number of os.Open calls, the number
\* of file.Close calls, and the returned pair.
FileCall(opens, closes, out) == [opened |-> opens, closed |-> closes, out |-> out]

\* ParseFromFile that closes the file only after Parse returned no error.
ParseFromFile_CloseOnSuccess(name, content) ==
    IF name = ""
    THEN FileCall(0, 0, [ret |-> << >>, err |-> ErrEmptyFilename])
    ELSE LET file == Open(name, content)
         IN  IF file.err # ErrNil
             THEN FileCall(1, 0, [ret |-> << >>, err |-> ErrOpenFile(name, file.err)])
             ELSE LET out == ParseReader(file.lines, file.readErr)
                  IN  FileCall(1, IF out.err = ErrNil THEN 1 ELSE 0, out)

\* ParseFromFile(name); the deferred file.Close() runs on every return that
\* follows a successful os.Open.
ParseFromFile(name, content) ==
    IF name = ""
    THEN FileCall(0, 0, [ret |-> << >>, err |-> ErrEmptyFilename])
    ELSE LET file == Open(name, content)
         IN  IF file.err # ErrNil
             THEN FileCall(1, 0, [ret |-> << >>, err |-> ErrOpenFile(name, file.err)])
             ELSE FileCall(1, 1, ParseReader(file.lines, file.readErr))

InitFileInputs ==
    /\ InitCore /\ InitClass /\ InitLog /\ InitCalls /\ InitMain
    /\ stream \in FileContents
    /\ streamOut = << >>
    /\ filename \in FileNames
    /\ opened = 0
    /\ closed = 0
    /\ fileOut = << >>

\* One call of ParseFromFile(filename).
CallParseFromFile ==
    /\ fileOut = << >>
    /\ \E r \in {ParseFromFile(filename, stream)} :
           /\ opened' = opened + r.opened
           /\ closed' = closed + r.closed
           /\ fileOut' = <<r.out>>
    /\ UNCHANGED <<filename, stream, streamOut>>
    /\ UNCHANGED <<parseVars, evalVars, checkVars, histVars, lineVars>>
    /\ UNCHANGED <<classVars, logVars, callVars, mainVars>>

NextFile == CallParseFromFile

SpecFile == InitFileInputs /\ [][NextFile]_vars

\* C29: a call with the empty name returns its error and calls neither
\* os.Open nor Close; a call on a path that does not open returns no result
\* and the open error behind "failed to open file <name>: "; every other call
\* returns what Parse returns for the lines and the read error of the file,
\* and has closed the file once, whether Parse succeeded, found nothing or
\* failed reading.
C29_FileCallIsParseOfTheContent ==
    fileOut # << >> =>
        /\ filename = "" =>
               /\ fileOut[1] = [ret |-> << >>, err |-> ErrEmptyFilename]
               /\ opened = 0 /\ closed = 0
        /\ filename = "/non/existent/file.txt" =>
               /\ fileOut[1].ret = << >>
               /\ fileOut[1].err =
                      "failed to open file /non/existent/file.txt: "
                          \o "open /non/existent/file.txt: no such file or directory"
               /\ opened = 1 /\ closed = 0
        /\ filename = NameSampleUbuntu =>
               /\ fileOut[1] = ParseReader(stream, ErrNil)
               /\ opened = 1 /\ closed = 1
        /\ filename = NameDirectory =>
               /\ fileOut[1] = [ret |-> << >>, err |-> ErrReading("read .: is a directory")]
               /\ opened = 1 /\ closed = 1

\* C29 witness: the regular file held nothing the parser extracts; the call
\* returned the no-content error with an empty result and closed the file.
C29_Witness_NoContentFileClosed ==
    /\ filename = NameSampleUbuntu
    /\ stream = <<LineNarrative>>
    /\ fileOut # << >>
    /\ fileOut[1].err = ErrNoPackageSection
    /\ fileOut[1].ret # << >>
    /\ opened = 1
    /\ closed = 1

\* The five marker texts.
FiveMarkers ==
    {MarkerPackagesBegin, MarkerPackagesEnd, MarkerOSReleaseBegin, MarkerOSReleaseEnd,
     MarkerContainerImages}

\* The three section flags.
Tracker == <<inPackageSection, inOSReleaseSection, inContainerImagesSection>>

\* The step leaves the container section, and nothing else of the tracker
\* changes, on a line that has text and lacks the entry prefix.
ImplicitExit ==
    /\ inContainerImagesSection /\ ~inContainerImagesSection'
    /\ UNCHANGED <<inPackageSection, inOSReleaseSection>>
    /\ TrimSpace(line') # << >>
    /\ ~HasPrefix(line', ImagePrefix)

\* The white space put around a marker.
MarkerPadding == {<< >>, <<" ">>, <<"\t", " ">>}

\* C30: in an iteration of the scan the section flags change only when the
\* trimmed line is one of the five markers or the container section is left
\* implicitly; a line whose trimmed text is a marker sets the flags as the
\* marker says whatever they were, and records no package, image or
\* os-release field; padding a marker with white space changes nothing of
\* this; and the line "=== Installed Packages Begin ===" sets no flag.
C30_OnlyMarkersMoveTheTracker ==
    [][ScanStep =>
          LET t == TrimSpace(line')
          IN  /\ Tracker' # Tracker => (t \in FiveMarkers \/ ImplicitExit)
              /\ t \in FiveMarkers =>
                     /\ UNCHANGED <<result, osReleaseData, ubuntuPackageCount, rpmPackageCount>>
                     /\ t = MarkerPackagesBegin => Tracker' = <<TRUE, FALSE, FALSE>>
                     /\ t = MarkerOSReleaseBegin => Tracker' = <<FALSE, TRUE, FALSE>>
                     /\ t = MarkerContainerImages => Tracker' = <<FALSE, FALSE, TRUE>>
                     /\ t = MarkerPackagesEnd => ~inPackageSection'
                     /\ t = MarkerOSReleaseEnd => ~inOSReleaseSection'
              /\ \A m \in FiveMarkers : \A before, after \in MarkerPadding :
                     MarkerSwitch(TrimSpace(before \o m \o after),
                                  Sections(inPackageSection, inOSReleaseSection,
                                           inContainerImagesSection))
                         = MarkerSwitch(m, Sections(inPackageSection, inOSReleaseSection,
                                                    inContainerImagesSection))
              /\ line' = LineNearMissBegin =>
                     /\ inPackageSection' => inPackageSection
                     /\ inOSReleaseSection' => inOSReleaseSection
                     /\ inContainerImagesSection' => inContainerImagesSection
                     /\ UNCHANGED <<result, osReleaseData>>]_vars

\* C30 witness: after the opening marker and a package line, the padded
\* closing marker was read; the section is closed and the one package stands.
C30_Witness_PaddedEndRecognised ==
    /\ pc = "scanning"
    /\ linesRead = 3
    /\ line = LinePaddedPackagesEnd
    /\ NoSection
    /\ Len(result.Packages) = 1

(***************************************************************************)
(* One call of Parse on inputs with a packages section and os-release      *)
(* sections (parser.go, Parse).                                            *)
(***************************************************************************)

\* "NAME="Microsoft Azure Linux""
LineNameAzure ==
    <<"N","A","M","E","=","\"","M","i","c","r","o","s","o","f","t"," ","A","z","u","r","e",
      " ","L","i","n","u","x","\"">>

\* "ID="""
LineIdEmpty ==
    <<"I","D","=","\"","\"">>

\* "Microsoft Azure Linux"
NameAzureLinux ==
    <<"M","i","c","r","o","s","o","f","t"," ","A","z","u","r","e"," ","L","i","n","u","x">>

\* "Ubuntu"
NameUbuntu ==
    <<"U","b","u","n","t","u">>

\* The longest body of the first os-release section.
MaxReleaseLines == 2

\* The lines of an os-release section: two values of NAME, an empty and a
\* recognised ID, a key that is not stored and a line without "=".
ReleaseLines ==
    {LineName, LineNameAzure, LineIdEmpty, LineIdUbuntu, LineHomeUrl, LineNarrative}

ReleaseBodies == SeqsUpTo(ReleaseLines, MaxReleaseLines)

\* What follows the first os-release section: nothing, or a second section
\* with another NAME, or with an empty ID.
SecondReleases ==
    {<< >>, OSReleaseSection(<<LineNameAzure>>), OSReleaseSection(<<LineIdEmpty>>)}

\* Bodies of the packages section: none, one line of either grammar, and
\* one of each.
CountedBodies == {<< >>, <<LineApt>>, <<LineRpm>>, <<LineApt, LineRpm>>}

\* A packages section, an os-release section and what follows it.
ReleaseInput(p, r, second) == PackagesSection(p) \o OSReleaseSection(r) \o second

\* The inputs, and the packages section alone.
ReleaseInputs ==
    {ReleaseInput(p, r, second) :
        p \in CountedBodies, r \in ReleaseBodies, second \in SecondReleases}
        \cup {PackagesSection(p) : p \in CountedBodies}

InitReleaseInputs ==
    /\ InitCore /\ InitClass /\ InitLog /\ InitCalls /\ InitFile /\ InitMain
    /\ stream \in ReleaseInputs
    /\ streamOut = << >>

SpecRelease == InitReleaseInputs /\ [][NextStream]_vars

\* The key an os-release line of the inputs assigns, << >> for a line that
\* assigns none of the five.
KeyOfLine(l) ==
    IF l \in {LineName, LineNameAzure} THEN KeyNAME
    ELSE IF l \in {LineIdEmpty, LineIdUbuntu} THEN KeyID
    ELSE << >>

\* The value such a line assigns.
ValueOfLine(l) ==
    IF l = LineName THEN NameUbuntu
    ELSE IF l = LineNameAzure THEN NameAzureLinux
    ELSE IF l = LineIdUbuntu THEN IdUbuntu
    ELSE << >>

\* Some line of lines assigns one of the five keys.
SomeKeyRecorded(lines) == \E i \in DOMAIN lines : KeyOfLine(lines[i]) # << >>

\* The value of the last line of lines that assigns key, "" when none does.
LastValue(key, lines) ==
    LET at == {i \in DOMAIN lines : KeyOfLine(lines[i]) = key}
    IN  IF at = {} THEN << >>
        ELSE ValueOfLine(lines[CHOOSE i \in at : \A j \in at : j <= i])

\* Parse has returned a result for the input.
StreamParsed == streamOut # << >> /\ streamOut[1].ret # << >>

\* The distro the counters give for a packages body of the inputs.
VoteOf(p) ==
    LET apt == Len(SelectSeq(p, LAMBDA l : l = LineApt))
        rpm == Len(SelectSeq(p, LAMBDA l : l = LineRpm))
    IN  IF rpm > apt THEN DistroAzureLinux
        ELSE IF apt > rpm THEN DistroUbuntu
        ELSE DistroUnknown

\* C31: the result carries an OS identity exactly when some os-release line
\* of the input assigned one of the five keys; an input without os-release
\* section, or with sections of other keys and lines without "=" only,
\* returns no identity, and the result then consists of the two lists alone.
C31_IdentityIffKeyRecorded ==
    StreamParsed =>
        /\ \A p \in CountedBodies, r \in ReleaseBodies, second \in SecondReleases :
               stream = ReleaseInput(p, r, second) =>
                   (streamOut[1].ret[1].OSRelease # << >> <=> SomeKeyRecorded(r \o second))
        /\ \A p \in CountedBodies :
               stream = PackagesSection(p) => streamOut[1].ret[1].OSRelease = << >>
        /\ streamOut[1].ret[1].OSRelease = << >> =>
               streamOut[1].ret[1] =
                   [Packages |-> streamOut[1].ret[1].Packages,
                    ContainerImages |-> streamOut[1].ret[1].ContainerImages,
                    OSRelease |-> << >>]

\* C31 witness: an RPM package and an os-release section of an unrecognised
\* key and a line without "=" were parsed: one package, no identity.
C31_Witness_RpmAndUnrecognisedKeys ==
    /\ stream = ReleaseInput(<<LineRpm>>, <<LineHomeUrl, LineNarrative>>, << >>)
    /\ StreamParsed
    /\ Len(streamOut[1].ret[1].Packages) = 1
    /\ streamOut[1].ret[1].OSRelease = << >>
    /\ streamOut[1].err = ErrNil

\* C32: when some key was recorded and the ID is missing or empty at the end
\* of the scan, the distro of the result is the vote of the counters: more
\* RPM lines AzureLinux, more APT lines Ubuntu, equal counts Unknown.
C32_NoIdLeavesItToTheCounters ==
    StreamParsed =>
        \A p \in CountedBodies, r \in ReleaseBodies, second \in SecondReleases :
            (/\ stream = ReleaseInput(p, r, second)
             /\ SomeKeyRecorded(r \o second)
             /\ LastValue(KeyID, r \o second) = << >>) =>
                /\ streamOut[1].ret[1].OSRelease # << >>
                /\ streamOut[1].ret[1].OSRelease[1].Distro = VoteOf(p)

\* C32 witness: one RPM line, a NAME and an empty ID: the result says
\* AzureLinux.
C32_Witness_EmptyIdMoreRpm ==
    /\ stream = ReleaseInput(<<LineRpm>>, <<LineName, LineIdEmpty>>, << >>)
    /\ StreamParsed
    /\ streamOut[1].ret[1].OSRelease # << >>
    /\ streamOut[1].ret[1].OSRelease[1].ID = << >>
    /\ streamOut[1].ret[1].OSRelease[1].Distro = DistroAzureLinux

\* C35: the identity of the result holds, for each key, the value of its
\* last assignment in the whole input, whichever section it stands in, and
\* "" for a key never assigned; there is one identity at most.
C35_LastAssignmentWinsAcrossSections ==
    StreamParsed =>
        /\ Len(streamOut[1].ret[1].OSRelease) <= 1
        /\ \A p \in CountedBodies, r \in ReleaseBodies, second \in SecondReleases :
               (stream = ReleaseInput(p, r, second) /\ SomeKeyRecorded(r \o second)) =>
                   /\ streamOut[1].ret[1].OSRelease # << >>
                   /\ streamOut[1].ret[1].OSRelease[1].Name = LastValue(KeyNAME, r \o second)
                   /\ streamOut[1].ret[1].OSRelease[1].ID = LastValue(KeyID, r \o second)
                   /\ streamOut[1].ret[1].OSRelease[1].VersionID = << >>
                   /\ streamOut[1].ret[1].OSRelease[1].Version = << >>
                   /\ streamOut[1].ret[1].OSRelease[1].PrettyName = << >>

\* C35 witness: NAME and ID in the first section, another NAME in a second
\* section: the identity has the second NAME and the ID of the first section.
C35_Witness_SecondSectionOverridesName ==
    /\ stream = ReleaseInput(<< >>, <<LineName, LineIdUbuntu>>, OSReleaseSection(<<LineNameAzure>>))
    /\ StreamParsed
    /\ streamOut[1].ret[1].OSRelease # << >>
    /\ streamOut[1].ret[1].OSRelease[1].Name = NameAzureLinux
    /\ streamOut[1].ret[1].OSRelease[1].ID = IdUbuntu
    /\ streamOut[1].ret[1].OSRelease[1].Distro = DistroUbuntu

(***************************************************************************)
(* What one line of the scan may change (parser.go, Parse, the branches    *)
(* after the marker switch).                                               *)
(***************************************************************************)

\* seq2 is seq1, or seq1 with one element appended.
GrownByAtMostOne(seq1, seq2) ==
    /\ Len(seq2) \in {Len(seq1), Len(seq1) + 1}
    /\ \A i \in DOMAIN seq1 : seq2[i] = seq1[i]

\* map2 is map1, or map1 with one key set.
OneKeySet(map1, map2) ==
    \/ map2 = map1
    \/ \E k \in OSReleaseKeys :
           /\ DOMAIN map2 = DOMAIN map1 \cup {k}
           /\ \A j \in DOMAIN map1 \ {k} : map2[j] = map1[j]

\* C33: an iteration on a line that is no marker changes the artifact of
\* the open section only and adds one record at most: in the packages
\* section the package list and the counters, in the os-release section the
\* map, in the container section the image list or the container flag, and
\* outside every section nothing.
C33_LineTouchesOpenSectionOnly ==
    [][(ScanStep /\ TrimSpace(line') \notin FiveMarkers) =>
          /\ inPackageSection =>
                 /\ UNCHANGED <<Tracker, osReleaseData>>
                 /\ result'.ContainerImages = result.ContainerImages
                 /\ result'.OSRelease = result.OSRelease
                 /\ GrownByAtMostOne(result.Packages, result'.Packages)
                 /\ (ubuntuPackageCount' - ubuntuPackageCount)
                        + (rpmPackageCount' - rpmPackageCount)
                            \in {0, Len(result'.Packages) - Len(result.Packages)}
                 /\ ubuntuPackageCount' >= ubuntuPackageCount
                 /\ rpmPackageCount' >= rpmPackageCount
          /\ inOSReleaseSection =>
                 /\ UNCHANGED <<Tracker, result, ubuntuPackageCount, rpmPackageCount>>
                 /\ OneKeySet(osReleaseData, osReleaseData')
          /\ inContainerImagesSection =>
                 /\ UNCHANGED <<inPackageSection, inOSReleaseSection, osReleaseData,
                                ubuntuPackageCount, rpmPackageCount>>
                 /\ result'.Packages = result.Packages
                 /\ result'.OSRelease = result.OSRelease
                 /\ GrownByAtMostOne(result.ContainerImages, result'.ContainerImages)
                 /\ ~inContainerImagesSection' =>
                        result'.ContainerImages = result.ContainerImages
          /\ NoSection =>
                 UNCHANGED <<Tracker, result, osReleaseData, ubuntuPackageCount,
                             rpmPackageCount>>]_vars

\* C33 witness: four lines were read, the last an RPM package line, no
\* section is open after it and nothing at all is recorded.
C33_Witness_PackageLineOutsideSections ==
    /\ pc = "scanning"
    /\ linesRead = 4
    /\ line = LineRpm
    /\ NoSection
    /\ result = EmptyResult
    /\ osReleaseData = EmptyMap
    /\ ubuntuPackageCount = 0
    /\ rpmPackageCount = 0

\* Lines of the scan that are text of neither package grammar.
NeitherGrammar ==
    {LineNarrative, LineHomeUrl, LineName, LineIdUbuntu, LineNearMissBegin, LinePrefixOnly}

\* C34: in the packages section a line of neither grammar adds no package,
\* raises no error (the scan goes on and the returned error is untouched)
\* and leaves the section open, and a package line read after it is recorded.
C34_UnmatchedLineKeepsPackagesOpen ==
    [][/\ (pc = "scanning" /\ linesRead' = linesRead + 1 /\ inPackageSection
              /\ line' \in NeitherGrammar) =>
           /\ pc' = "scanning"
           /\ retErr' = retErr
           /\ inPackageSection'
           /\ UNCHANGED <<inOSReleaseSection, inContainerImagesSection, result,
                          ubuntuPackageCount, rpmPackageCount>>
       /\ (ScanStep /\ inPackageSection /\ line \in NeitherGrammar
              /\ line' \in {LineApt, LineRpm}) =>
           Len(result'.Packages) = Len(result.Packages) + 1]_vars

\* C34 witness: the opening marker, a line of each grammar and a line of
\* narrative text were read: the section is open and holds the two packages.
C34_Witness_PackageAfterNarrative ==
    /\ pc = "scanning"
    /\ linesRead = 4
    /\ line = LineNarrative
    /\ inPackageSection
    /\ Len(result.Packages) = 2
    /\ ubuntuPackageCount = 1
    /\ rpmPackageCount = 1

\* C36: in the container section the line "  - " adds no image and leaves
\* the section open, and an image line read after it is recorded.
C36_BarePrefixKeepsImagesOpen ==
    [][/\ (ScanStep /\ inContainerImagesSection /\ line' = LinePrefixOnly) =>
           /\ inContainerImagesSection'
           /\ UNCHANGED result
       /\ (ScanStep /\ inContainerImagesSection /\ line = LinePrefixOnly
              /\ line' = LineImage) =>
           /\ inContainerImagesSection'
           /\ Len(result'.ContainerImages) = Len(result.ContainerImages) + 1]_vars

\* C36 witness: the marker, an image line and the bare prefix were read: the
\* section is open with the one image.
C36_Witness_BarePrefixAfterImage ==
    /\ pc = "scanning"
    /\ linesRead = 3
    /\ line = LinePrefixOnly
    /\ inContainerImagesSection
    /\ Len(result.ContainerImages) = 1

\* The error of the scanner for a line longer than its buffer limit.
ErrTooLong == "bufio.Scanner: token too long"

\* C37: a call that ended on a read error, the scanner's error for a line
\* over its limit included, returned no result and the wrapped error,
\* whatever had been extracted before; a call on a nil reader returned no
\* result and an error; a result is returned exactly with the nil error or
\* the no-content error, and with the latter its lists are empty.
C37_FailureReturnsNoResult ==
    pc = "done" =>
        /\ scanErr \in ReadErrors =>
               (retResult = << >> /\ retErr = ErrReading(scanErr))
        /\ retErr = ErrNilReader => (retResult = << >> /\ linesRead = 0)
        /\ retResult = << >> <=>
               retErr \in {ErrNilReader} \cup {ErrReading(e) : e \in ReadErrors}
        /\ retResult # << >> <=> retErr \in {ErrNil, ErrNoPackageSection}
        /\ retErr = ErrNoPackageSection =>
               /\ retResult # << >>
               /\ retResult[1].Packages = << >>
               /\ retResult[1].ContainerImages = << >>

\* C37 witness: a package and an image had been extracted when the scanner
\* met a line over its limit: nothing is returned but the wrapped error.
C37_Witness_TooLongAfterRecords ==
    /\ pc = "done"
    /\ scanErr = ErrTooLong
    /\ Len(result.Packages) = 1
    /\ Len(result.ContainerImages) = 1
    /\ retResult = << >>
    /\ retErr = "error reading content: bufio.Scanner: token too long"

(***************************************************************************)
(* main from the vulnerability report on (main.go, main): the range loop   *)
(* over d.Packages, one iteration a step.                                  *)
(***************************************************************************)

\* Packages of the inventory at most.
MaxInventory == 3

\* checkPackageVulnerabilities(pkg, osRelease) as a function, out being the
\* pair the source returns when one is asked: the returned pair, and query,
\* which is << >> when no source was asked.
checkPackageVulnerabilities(pkg, rel, out) ==
    IF rel = << >>
    THEN [vulns |-> << >>, err |-> ErrOSReleaseRequired, query |-> << >>]
    ELSE IF VulnSrc(rel[1].Distro) = << >>
    THEN [vulns |-> << >>, err |-> ErrUnsupportedDistribution(rel[1].Distro),
          query |-> << >>]
    ELSE IF out.err # ErrNil
    THEN [vulns |-> << >>, err |-> out.err,
          query |-> <<Query(VulnSrc(rel[1].Distro)[1], rel[1].VersionID, pkg.Name)>>]
    ELSE [vulns |-> FilterActive(pkg.Version, out.allVulns, rel[1].Distro),
          err |-> ErrNil,
          query |-> <<Query(VulnSrc(rel[1].Distro)[1], rel[1].VersionID, pkg.Name)>>]

\* "Unable to check vulnerabilities (no OS release info)"
PrintedUnable == [kind |-> "unable"]

\* "Package: %s %s - Error: %v"
PrintedError(pkg, err) ==
    [kind |-> "error", Name |-> pkg.Name, Version |-> pkg.Version, err |-> err]

\* "Package: %s %s" and one line for each vulnerability.
PrintedPackage(pkg, vulns) ==
    [kind |-> "package", Name |-> pkg.Name, Version |-> pkg.Version, vulns |-> vulns]

\* A call of checkPackageVulnerabilities and the error it returned.
LookupCall(pkg, err) == [pkg |-> pkg, err |-> err]

\* The vulnerabilities of vulns with a fixed version.
Fixable(vulns) == SelectSeq(vulns, LAMBDA v : v.FixedVersion # VerEmpty)

\* The counters after a package with the vulnerabilities vulns was printed.
Counted(sum, vulns) ==
    LET fixable   == Len(Fixable(vulns))
        unfixable == Len(vulns) - Len(Fixable(vulns))
    IN  [packagesWithVulns |-> sum.packagesWithVulns + 1,
         packagesWithFixableVulns |->
             sum.packagesWithFixableVulns + (IF fixable > 0 THEN 1 ELSE 0),
         packagesWithUnfixableVulns |->
             sum.packagesWithUnfixableVulns + (IF unfixable > 0 THEN 1 ELSE 0),
         totalVulns |-> sum.totalVulns + Len(vulns),
         fixableVulns |-> sum.fixableVulns + fixable,
         unfixableVulns |-> sum.unfixableVulns + unfixable]

\* The iteration that ends the loop at the first error instead of going on
\* to the next package.
MainCheckPackage_StopsAtError(out) ==
    /\ mainPc = "report"
    /\ dResult.OSRelease # << >>
    /\ pkgIndex <= Len(dResult.Packages)
    /\ \E r \in {checkPackageVulnerabilities(dResult.Packages[pkgIndex],
                                             dResult.OSRelease, out)} :
           /\ lookupCalls' = Append(lookupCalls,
                                    LookupCall(dResult.Packages[pkgIndex], r.err))
           /\ mainQueries' = mainQueries \o r.query
           /\ pkgIndex' = IF r.err # ErrNil THEN Len(dResult.Packages) + 1
                          ELSE pkgIndex + 1
           /\ IF r.err # ErrNil
              THEN /\ printed' = Append(printed,
                                        PrintedError(dResult.Packages[pkgIndex], r.err))
                   /\ UNCHANGED summary
              ELSE IF Len(r.vulns) > 0
              THEN /\ printed' = Append(printed,
                                        PrintedPackage(dResult.Packages[pkgIndex], r.vulns))
                   /\ summary' = Counted(summary, r.vulns)
              ELSE UNCHANGED <<printed, summary>>
    /\ UNCHANGED <<mainPc, dResult>>
    /\ UNCHANGED <<parseVars, evalVars, checkVars, histVars, lineVars>>
    /\ UNCHANGED <<classVars, logVars, callVars, streamVars, fileVars>>

\* One iteration of "for _, pkg := range d.Packages", in which the source,
\* when one is asked, returns the pair out.
MainCheckPackage(out) ==
    /\ mainPc = "report"
    /\ dResult.OSRelease # << >>
    /\ pkgIndex <= Len(dResult.Packages)
    /\ \E r \in {checkPackageVulnerabilities(dResult.Packages[pkgIndex],
                                             dResult.OSRelease, out)} :
           /\ lookupCalls' = Append(lookupCalls,
                                    LookupCall(dResult.Packages[pkgIndex], r.err))
           /\ mainQueries' = mainQueries \o r.query
           /\ pkgIndex' = pkgIndex + 1
           /\ IF r.err # ErrNil
              THEN /\ printed' = Append(printed,
                                        PrintedError(dResult.Packages[pkgIndex], r.err))
                   /\ UNCHANGED summary
              ELSE IF Len(r.vulns) > 0
              THEN /\ printed' = Append(printed,
                                        PrintedPackage(dResult.Packages[pkgIndex], r.vulns))
                   /\ summary' = Counted(summary, r.vulns)
              ELSE UNCHANGED <<printed, summary>>
    /\ UNCHANGED <<mainPc, dResult>>
    /\ UNCHANGED <<parseVars, evalVars, checkVars, histVars, lineVars>>
    /\ UNCHANGED <<classVars, logVars, callVars, streamVars, fileVars>>

\* if d.OSRelease == nil: the one line, and on to the summary.
MainNoOSRelease ==
    /\ mainPc = "report"
    /\ dResult.OSRelease = << >>
    /\ printed' = Append(printed, PrintedUnable)
    /\ mainPc' = "summary"
    /\ UNCHANGED <<dResult, pkgIndex, lookupCalls, mainQueries, summary>>
    /\ UNCHANGED <<parseVars, evalVars, checkVars, histVars, lineVars>>
    /\ UNCHANGED <<classVars, logVars, callVars, streamVars, fileVars>>

\* The range loop is through: on to the summary.
MainLoopEnd ==
    /\ mainPc = "report"
    /\ dResult.OSRelease # << >>
    /\ pkgIndex > Len(dResult.Packages)
    /\ mainPc' = "summary"
    /\ UNCHANGED <<dResult, pkgIndex, lookupCalls, mainQueries, printed, summary>>
    /\ UNCHANGED <<parseVars, evalVars, checkVars, histVars, lineVars>>
    /\ UNCHANGED <<classVars, logVars, callVars, streamVars, fileVars>>

\* The inventories: up to MaxInventory packages, repetitions included.
Inventories == SeqsUpTo(CheckPackages, MaxInventory)

\* The identities of d: none, and one of each distro a source exists for
\* and of the unknown distro.
MainReleases ==
    {<< >>, <<OSReleaseOf(VersionId2404, DistroUbuntu)>>,
     <<OSReleaseOf(VersionId30, DistroAzureLinux)>>,
     <<OSReleaseOf(VersionId2404, DistroUnknown)>>}

\* The results Parse returns with a nil error, which is what main goes on
\* with: something was extracted.
MainResults ==
    {r \in [Packages : Inventories,
            ContainerImages : {<< >>, <<ContainerImage(TrimSpace(TrimPrefix(LineImage, ImagePrefix)))>>},
            OSRelease : MainReleases] : FinalError(r) = ErrNil}

\* What a source answers in the loop: nothing, an advisory without a fix, an
\* advisory fixed in an older version, or an error.
MainOutcomes ==
    {[allVulns |-> << >>, err |-> ErrNil],
     [allVulns |-> <<Advisory("CVE-2023-9999", VerEmpty)>>, err |-> ErrNil],
     [allVulns |-> <<Advisory("CVE-2023-5678", VerRpm3)>>, err |-> ErrNil],
     [allVulns |-> << >>, err |-> "bucket not found"]}

InitMainInputs ==
    /\ InitCore /\ InitClass /\ InitLog /\ InitCalls /\ InitStream /\ InitFile
    /\ mainPc = "report"
    /\ dResult \in MainResults
    /\ pkgIndex = 1
    /\ lookupCalls = << >>
    /\ mainQueries = << >>
    /\ printed = << >>
    /\ summary = ZeroSummary

NextMain ==
    \/ \E out \in MainOutcomes : MainCheckPackage(out)
    \/ MainNoOSRelease
    \/ MainLoopEnd

SpecMain == InitMainInputs /\ [][NextMain]_vars

\* The error lines of the report, in order.
ErrorLines == SelectSeq(printed, LAMBDA x : x.kind = "error")

\* The calls that returned an error, in order.
FailedCalls == SelectSeq(lookupCalls, LAMBDA c : c.err # ErrNil)

\* C38: with no OS identity in the parse result no package is looked up and
\* no source is asked; with an identity the calls made so far are the
\* packages of the inventory up to the loop index, in inventory order,
\* whatever errors they returned, the whole inventory once the loop is
\* through, and the error lines of the report are those of the failed calls,
\* each with its own package and error, one line a failed call.
C38_LookupErrorSkipsOnePackageOnly ==
    /\ dResult.OSRelease = << >> => (lookupCalls = << >> /\ mainQueries = << >>)
    /\ (mainPc # "idle" /\ dResult.OSRelease # << >>) =>
           /\ Len(lookupCalls) = pkgIndex - 1
           /\ \A i \in DOMAIN lookupCalls : lookupCalls[i].pkg = dResult.Packages[i]
           /\ mainPc = "summary" => Len(lookupCalls) = Len(dResult.Packages)
           /\ Len(ErrorLines) = Len(FailedCalls)
           /\ \A i \in DOMAIN FailedCalls :
                  ErrorLines[i] = PrintedError(FailedCalls[i].pkg, FailedCalls[i].err)

\* C38 witness: of three packages the lookup of the second failed; the first
\* and the third were looked up without error, the report has the one error
\* line, for the second package, and the loop is through.
C38_Witness_SecondLookupFails ==
    /\ mainPc = "summary"
    /\ dResult.OSRelease # << >>
    /\ Len(dResult.Packages) = 3
    /\ Len(lookupCalls) = 3
    /\ lookupCalls[1].err = ErrNil
    /\ lookupCalls[2].err = "bucket not found"
    /\ lookupCalls[3].err = ErrNil
    /\ Len(mainQueries) = 3
    /\ Len(ErrorLines) = 1
    /\ ErrorLines[1].Name = dResult.Packages[2].Name

(***************************************************************************)
(* One call of Parse on a given finite stream, one line a step, with the   *)
(* record of the lines consumed (parser.go, Parse, the scanner loop).      *)
(***************************************************************************)

\* Lines of a stream at most.
MaxStreamLen == 4

\* The lines of the streams: two markers, an image line, a line of narrative
\* text and the empty line.
RunLines == {MarkerPackagesBegin, MarkerContainerImages, LineImage, LineNarrative, << >>}

RunStreams == SeqsUpTo(RunLines, MaxStreamLen)

InitRunInputs ==
    /\ InitCore /\ InitClass /\ InitLog /\ InitCalls /\ InitFile /\ InitMain
    /\ stream \in RunStreams
    /\ streamOut = << >>

\* The loop that does not consume an empty line: scanner.Scan() delivers it
\* again.
ScanNext_Rereads ==
    /\ pc = "scanning"
    /\ linesRead < Len(stream)
    /\ IF stream[linesRead + 1] = << >>
       THEN UNCHANGED vars
       ELSE /\ ScanLine(stream[linesRead + 1])
            /\ scanned' = Append(scanned,
                                 Scanned(stream[linesRead + 1], inPackageSection,
                                         inContainerImagesSection))

\* for scanner.Scan(): the scanner delivers the next line of the stream and
\* the body runs on it.
ScanNext ==
    /\ pc = "scanning"
    /\ linesRead < Len(stream)
    /\ ScanLine(stream[linesRead + 1])
    /\ scanned' = Append(scanned,
                         Scanned(stream[linesRead + 1], inPackageSection,
                                 inContainerImagesSection))

\* scanner.Scan() returned false: the stream is through, or the reader
\* failed after its last line.
StreamEnd ==
    /\ linesRead = Len(stream)
    /\ (ScanEnd \/ ScanFail)

NextRun ==
    \/ ParseNilReader
    \/ ParseBegin
    \/ ScanNext
    \/ StreamEnd

SpecRun == InitRunInputs /\ [][NextRun]_vars

\* The call is not suspended for ever: a step that is possible is taken.
SpecRunFair == SpecRun /\ WF_vars(NextRun)

\* The lines consumed so far are the first linesRead lines of the stream, in
\* the order of the stream, each once.
ConsumedInOrder ==
    /\ Len(scanned) = linesRead
    /\ linesRead <= Len(stream)
    /\ \A i \in DOMAIN scanned : scanned[i].line = stream[i]

\* The call on a reader returned after the last line, with a result and no
\* error, with the no-content error, or with the wrapped read error.
DecidedAtEnd ==
    (pc = "done" /\ retErr # ErrNilReader) =>
        /\ linesRead = Len(stream)
        /\ \/ retResult # << >> /\ retErr = ErrNil
           \/ retResult # << >> /\ retErr = ErrNoPackageSection
           \/ retResult = << >> /\ scanErr \in ReadErrors /\ retErr = ErrReading(scanErr)

\* C39: on every finite stream the call returns; up to then it has consumed
\* the lines of the stream in order, each once, the count of consumed lines
\* never going back, and it returns after the last line with a result, the
\* no-content error or a read error.
C39_ParseTerminatesAfterOnePass ==
    /\ []ConsumedInOrder
    /\ [][linesRead' \in {linesRead, linesRead + 1}]_vars
    /\ []DecidedAtEnd
    /\ <>(pc = "done")

\* C39 witness: a stream of MaxStreamLen lines with an image and a line of
\* narrative text in the packages section was consumed to its end and the
\* call returned a result.
C39_Witness_WholeStreamConsumed ==
    /\ pc = "done"
    /\ Len(stream) = MaxStreamLen
    /\ linesRead = MaxStreamLen
    /\ Len(scanned) = MaxStreamLen
    /\ retErr = ErrNil
    /\ retResult # << >>
    /\ stream[1] = MarkerContainerImages
    /\ stream[MaxStreamLen] = LineNarrative
    /\ scanned[MaxStreamLen].inPackageSection
    /\ Len(retResult[1].ContainerImages) = 1

====
